---- MODULE Spec2Model ----
(***************************************************************************)
(* Three-stage PubMed screening pipeline (DCTV x DSF, University of        *)
(* Padova): 01_screen_affiliations.py, 02_search_collaborations.py and     *)
(* 03_search_with_names.py.  Suffixes _s2 and _s3 tell the stage-2 and     *)
(* stage-3 version of a function apart where the two files differ.         *)
(* Python strings whose characters the code inspects are sequences of      *)
(* one-character strings.                                                  *)
(***************************************************************************)
EXTENDS Integers, Sequences, FiniteSets, TLC

(***************************************************************************)
(* Python string primitives                                                *)
(***************************************************************************)
\* str.lower() on one character (ASCII letters)
ToLower ==
    "A" :> "a" @@ "B" :> "b" @@ "C" :> "c" @@ "D" :> "d" @@ "E" :> "e" @@
    "F" :> "f" @@ "G" :> "g" @@ "H" :> "h" @@ "I" :> "i" @@ "J" :> "j" @@
    "K" :> "k" @@ "L" :> "l" @@ "M" :> "m" @@ "N" :> "n" @@ "O" :> "o" @@
    "P" :> "p" @@ "Q" :> "q" @@ "R" :> "r" @@ "S" :> "s" @@ "T" :> "t" @@
    "U" :> "u" @@ "V" :> "v" @@ "W" :> "w" @@ "X" :> "x" @@ "Y" :> "y" @@
    "Z" :> "z"

lower_chr(c) == IF c \in DOMAIN ToLower THEN ToLower[c] ELSE c

\* s.lower()
lower(s) == [i \in 1..Len(s) |-> lower_chr(s[i])]

is_space(c) == c \in {" ", "\t", "\n"}

is_word(c) ==
    lower_chr(c) \in {"a", "b", "c", "d", "e", "f", "g", "h", "i", "j", "k", "l", "m",
                      "n", "o", "p", "q", "r", "s", "t", "u", "v", "w", "x", "y", "z",
                      "0", "1", "2", "3", "4", "5", "6", "7", "8", "9", "_"}

\* sep.join(strs)
RECURSIVE join(_, _)
join(sep, strs) ==
    IF Len(strs) = 0 THEN <<>>
    ELSE IF Len(strs) = 1 THEN strs[1]
    ELSE strs[1] \o sep \o join(sep, Tail(strs))

\* sub in s
contains(s, sub) ==
    \E i \in 0..(Len(s) - Len(sub)) : \A k \in 1..Len(sub) : s[i + k] = sub[k]

\* x in list
list_in(x, lst) == \E i \in 1..Len(lst) : lst[i] = x

(***************************************************************************)
(* Regular expressions: a pattern is a sequence of nodes.  re.search with  *)
(* re.IGNORECASE is re_search_i.                                           *)
(***************************************************************************)
Lit(w) == <<"lit", w>>
Dot == <<"any">>
Ws == <<"ws">>
Wb == <<"wb">>
Star(n) == <<"star", n>>
Opt(p) == <<"opt", p>>
Alt(ps) == <<"alt", ps>>
Eol == <<"eol">>

\* \b at the gap before s[i]
at_word_boundary(s, i) ==
    LET before == i > 1 /\ i - 1 <= Len(s) /\ is_word(s[i - 1])
        after == i >= 1 /\ i <= Len(s) /\ is_word(s[i])
    IN before # after

\* $ at the gap before s[i]: the end of s, or the line break that ends s
at_end(s, i) == i = Len(s) + 1 \/ (i = Len(s) /\ s[i] = "\n")

\* the literal w stands at s[i..], ignoring case
lit_at(w, s, i) ==
    /\ i + Len(w) - 1 <= Len(s)
    /\ \A k \in 1..Len(w) : lower_chr(s[i + k - 1]) = lower_chr(w[k])

\* one character against a one-character node ("." excludes the newline)
chr_matches(n, c) ==
    CASE n[1] = "any" -> c # "\n"
      [] n[1] = "ws" -> is_space(c)
      [] n[1] = "lit" -> Len(n[2]) = 1 /\ lower_chr(c) = lower_chr(n[2][1])

\* pat matches some prefix of s[i..]
RECURSIVE match_here(_, _, _)
match_here(pat, s, i) ==
    IF Len(pat) = 0 THEN TRUE
    ELSE LET n == Head(pat)
             rest == Tail(pat)
         IN CASE n[1] = "lit" -> lit_at(n[2], s, i) /\ match_here(rest, s, i + Len(n[2]))
              [] n[1] \in {"any", "ws"} ->
                     i <= Len(s) /\ chr_matches(n, s[i]) /\ match_here(rest, s, i + 1)
              [] n[1] = "wb" -> at_word_boundary(s, i) /\ match_here(rest, s, i)
              [] n[1] = "eol" -> at_end(s, i) /\ match_here(rest, s, i)
              [] n[1] = "star" -> \E j \in i..(Len(s) + 1) :
                                      /\ \A k \in i..(j - 1) : chr_matches(n[2], s[k])
                                      /\ match_here(rest, s, j)
              [] n[1] = "opt" -> \/ match_here(n[2] \o rest, s, i)
                                 \/ match_here(rest, s, i)
              [] n[1] = "alt" -> \E k \in 1..Len(n[2]) : match_here(n[2][k] \o rest, s, i)

\* re.search(pat, s, re.IGNORECASE) is not None
re_search_i(pat, s) == \E i \in 1..(Len(s) + 1) : match_here(pat, s, i)

(***************************************************************************)
(* Pattern sets of the two departments                                     *)
(***************************************************************************)
W_dctv == <<"d", "c", "t", "v">>
W_farmaco == <<"f", "a", "r", "m", "a", "c", "o">>
W_padov == <<"p", "a", "d", "o", "v">>
W_padua == <<"p", "a", "d", "u", "a">>


DCTV_PATTERNS_s3 ==
    << <<Lit(<<"c", "a", "r", "d", "i", "a", "c">>), Star(Dot), Lit(<<"t", "h", "o", "r", "a", "c", "i", "c">>), Star(Dot), Lit(<<"v", "a", "s", "c", "u", "l", "a", "r">>), Star(Dot), Lit(<<"s", "c", "i", "e", "n", "c", "e", "s">>), Star(Dot), Lit(<<"p", "u", "b", "l", "i", "c">>), Star(Dot), Lit(<<"h", "e", "a", "l", "t", "h">>)>>, \* cardiac.*thoracic.*vascular.*sciences.*public.*health
       <<Lit(<<"c", "a", "r", "d", "i", "a", "c">>), Star(Dot), Lit(<<"t", "h", "o", "r", "a", "c", "i", "c">>), Star(Dot), Lit(<<"v", "a", "s", "c", "u", "l", "a", "r">>), Star(Dot), Lit(<<"p", "u", "b", "l", "i", "c">>), Star(Dot), Lit(<<"h", "e", "a", "l", "t", "h">>)>>, \* cardiac.*thoracic.*vascular.*public.*health
       <<Lit(<<"c", "a", "r", "d", "i", "o">>), Star(Dot), Lit(<<"t", "h", "o", "r", "a", "c", "o">>), Star(Dot), Lit(<<"v", "a", "s", "c", "u", "l", "a", "r">>), Star(Dot), Lit(<<"p", "u", "b", "l", "i", "c">>), Star(Dot), Lit(<<"h", "e", "a", "l", "t", "h">>)>>, \* cardio.*thoraco.*vascular.*public.*health
       <<Lit(<<"c", "a", "r", "d", "i", "o", "v", "a", "s", "c", "u", "l", "a", "r">>), Star(Dot), Lit(<<"p", "u", "b", "l", "i", "c">>), Star(Dot), Lit(<<"h", "e", "a", "l", "t", "h">>), Star(Dot), Lit(W_padov)>>, \* cardiovascular.*public.*health.*padov
       <<Lit(<<"c", "a", "r", "d", "i", "o", "v", "a", "s", "c", "u", "l", "a", "r">>), Star(Dot), Lit(<<"p", "u", "b", "l", "i", "c">>), Star(Dot), Lit(<<"h", "e", "a", "l", "t", "h">>), Star(Dot), Lit(W_padua)>>, \* cardiovascular.*public.*health.*padua
       <<Lit(<<"c", "a", "r", "d", "i", "a", "c">>), Star(Dot), Lit(<<"t", "h", "o", "r", "a", "c", "i", "c">>), Star(Dot), Lit(<<"v", "a", "s", "c", "u", "l", "a", "r">>), Star(Dot), Lit(<<"s", "c", "i", "e", "n", "c", "e", "s">>), Star(Dot), Lit(W_padov)>>, \* cardiac.*thoracic.*vascular.*sciences.*padov
       <<Lit(<<"c", "a", "r", "d", "i", "a", "c">>), Star(Dot), Lit(<<"t", "h", "o", "r", "a", "c", "i", "c">>), Star(Dot), Lit(<<"v", "a", "s", "c", "u", "l", "a", "r">>), Star(Dot), Lit(<<"s", "c", "i", "e", "n", "c", "e", "s">>), Star(Dot), Lit(W_padua)>>, \* cardiac.*thoracic.*vascular.*sciences.*padua
       <<Lit(<<"c", "a", "r", "d", "i", "a", "c">>), Opt(<<Lit(<<",">>)>>), Star(Ws), Lit(<<"t", "h", "o", "r", "a", "c", "i", "c">>), Opt(<<Lit(<<",">>)>>), Star(Ws), Opt(<<Lit(<<"a", "n", "d">>), Ws, Star(Ws)>>), Lit(<<"v", "a", "s", "c", "u", "l", "a", "r">>), Star(Dot), Lit(W_padov)>>, \* cardiac,?\s*thoracic,?\s*(and\s+)?vascular.*padov
       <<Lit(<<"c", "a", "r", "d", "i", "a", "c">>), Opt(<<Lit(<<",">>)>>), Star(Ws), Lit(<<"t", "h", "o", "r", "a", "c", "i", "c">>), Opt(<<Lit(<<",">>)>>), Star(Ws), Opt(<<Lit(<<"a", "n", "d">>), Ws, Star(Ws)>>), Lit(<<"v", "a", "s", "c", "u", "l", "a", "r">>), Star(Dot), Lit(W_padua)>>, \* cardiac,?\s*thoracic,?\s*(and\s+)?vascular.*padua
       <<Lit(<<"l", "e", "g", "a", "l">>), Ws, Star(Ws), Lit(<<"m", "e", "d", "i", "c", "i", "n", "e">>), Star(Dot), Lit(W_padov)>>, \* legal\s+medicine.*padov
       <<Lit(<<"l", "e", "g", "a", "l">>), Ws, Star(Ws), Lit(<<"m", "e", "d", "i", "c", "i", "n", "e">>), Star(Dot), Lit(W_padua)>>, \* legal\s+medicine.*padua
       <<Lit(<<"m", "e", "d", "i", "c", "i", "n", "a">>), Ws, Star(Ws), Lit(<<"l", "e", "g", "a", "l", "e">>), Star(Dot), Lit(W_padov)>>, \* medicina\s+legale.*padov
       <<Lit(<<"c", "a", "r", "d", "i", "o">>), Star(Dot), Lit(<<"t", "o", "r", "a", "c", "o">>), Star(Dot), Lit(<<"v", "a", "s", "c", "o", "l", "a", "r">>), Star(Dot), Lit(<<"s", "a", "n", "i", "t">>)>>, \* cardio.*toraco.*vascolar.*sanit
       <<Lit(<<"s", "c", "i", "e", "n", "z", "e">>), Star(Dot), Lit(<<"c", "a", "r", "d", "i", "o">>), Star(Dot), Lit(<<"t", "o", "r", "a", "c", "o">>), Star(Dot), Lit(<<"v", "a", "s", "c", "o", "l", "a", "r">>)>>, \* scienze.*cardio.*toraco.*vascolar
       <<Wb, Lit(W_dctv), Wb>> >> \* \bdctv\b

DSF_PATTERNS_s3 ==
    << <<Lit(<<"p", "h", "a", "r", "m", "a", "c", "e", "u", "t", "i", "c", "a", "l">>), Star(Dot), Lit(<<"p", "h", "a", "r", "m", "a", "c", "o", "l", "o", "g", "i", "c", "a", "l">>), Star(Dot), Lit(<<"s", "c", "i", "e", "n", "c", "e", "s">>), Star(Dot), Lit(W_padov)>>, \* pharmaceutical.*pharmacological.*sciences.*padov
       <<Lit(<<"p", "h", "a", "r", "m", "a", "c", "e", "u", "t", "i", "c", "a", "l">>), Star(Dot), Lit(<<"p", "h", "a", "r", "m", "a", "c", "o", "l", "o", "g", "i", "c", "a", "l">>), Star(Dot), Lit(<<"s", "c", "i", "e", "n", "c", "e", "s">>), Star(Dot), Lit(W_padua)>>, \* pharmaceutical.*pharmacological.*sciences.*padua
       <<Lit(<<"p", "h", "a", "r", "m", "a", "c", "e", "u", "t", "i", "c", "a", "l">>), Ws, Star(Ws), Alt(<<<<Lit(<<"&">>)>>, <<Lit(<<"a", "n", "d">>)>>>>), Ws, Star(Ws), Lit(<<"p", "h", "a", "r", "m", "a", "c", "o", "l", "o", "g", "i", "c", "a", "l">>), Star(Dot), Lit(W_padov)>>, \* pharmaceutical\s+(&|and)\s+pharmacological.*padov
       <<Lit(<<"p", "h", "a", "r", "m", "a", "c", "e", "u", "t", "i", "c", "a", "l">>), Ws, Star(Ws), Alt(<<<<Lit(<<"&">>)>>, <<Lit(<<"a", "n", "d">>)>>>>), Ws, Star(Ws), Lit(<<"p", "h", "a", "r", "m", "a", "c", "o", "l", "o", "g", "i", "c", "a", "l">>), Star(Dot), Lit(W_padua)>>, \* pharmaceutical\s+(&|and)\s+pharmacological.*padua
       <<Lit(<<"s", "c", "i", "e", "n", "z", "e">>), Star(Dot), Lit(<<"d", "e", "l">>), Star(Dot), Lit(W_farmaco), Star(Dot), Lit(W_padov)>>, \* scienze.*del.*farmaco.*padov
       <<Lit(<<"s", "c", "i", "e", "n", "z", "e">>), Star(Dot), Lit(<<"d", "e", "l">>), Star(Dot), Lit(W_farmaco), Star(Dot), Lit(W_padua)>> >> \* scienze.*del.*farmaco.*padua

DCTV_PATTERNS_s2 ==
    << <<Lit(<<"c", "a", "r", "d", "i", "a", "c">>), Star(Dot), Lit(<<"t", "h", "o", "r", "a", "c", "i", "c">>), Star(Dot), Lit(<<"v", "a", "s", "c", "u", "l", "a", "r">>), Star(Dot), Lit(<<"p", "u", "b", "l", "i", "c">>), Star(Dot), Lit(<<"h", "e", "a", "l", "t", "h">>)>>, \* cardiac.*thoracic.*vascular.*public.*health
       <<Lit(<<"c", "a", "r", "d", "i", "o">>), Star(Dot), Lit(<<"t", "h", "o", "r", "a", "c", "o">>), Star(Dot), Lit(<<"v", "a", "s", "c", "u", "l", "a", "r">>), Star(Dot), Lit(<<"p", "u", "b", "l", "i", "c">>), Star(Dot), Lit(<<"h", "e", "a", "l", "t", "h">>)>>, \* cardio.*thoraco.*vascular.*public.*health
       <<Lit(<<"c", "a", "r", "d", "i", "o", "t", "h", "o", "r", "a", "c", "i", "c">>), Star(Dot), Lit(<<"v", "a", "s", "c", "u", "l", "a", "r">>), Star(Dot), Lit(<<"p", "u", "b", "l", "i", "c">>), Star(Dot), Lit(<<"h", "e", "a", "l", "t", "h">>)>>, \* cardiothoracic.*vascular.*public.*health
       <<Lit(<<"c", "a", "r", "d", "i", "o">>), Star(Dot), Lit(<<"t", "o", "r", "a", "c", "o">>), Star(Dot), Lit(<<"v", "a", "s", "c", "o", "l", "a", "r">>), Star(Dot), Lit(<<"s", "a", "n", "i", "t">>)>>, \* cardio.*toraco.*vascolar.*sanit
       <<Lit(<<"s", "c", "i", "e", "n", "z", "e">>), Star(Dot), Lit(<<"c", "a", "r", "d", "i", "o">>), Star(Dot), Lit(<<"t", "o", "r", "a", "c", "o">>), Star(Dot), Lit(<<"v", "a", "s", "c", "o", "l", "a", "r">>)>>, \* scienze.*cardio.*toraco.*vascolar
       <<Lit(W_dctv)>> >> \* dctv

DSF_PATTERNS_s2 ==
    << <<Lit(<<"p", "h", "a", "r", "m", "a", "c", "e", "u", "t", "i", "c", "a", "l">>), Star(Dot), Lit(<<"p", "h", "a", "r", "m", "a", "c", "o", "l", "o", "g", "i", "c", "a", "l">>), Star(Dot), Lit(<<"s", "c", "i", "e", "n", "c", "e", "s">>)>>, \* pharmaceutical.*pharmacological.*sciences
       <<Lit(<<"p", "h", "a", "r", "m", "a", "c", "e", "u", "t", "i", "c", "a", "l">>), Star(Dot), Lit(<<"s", "c", "i", "e", "n", "c", "e", "s">>), Star(Dot), Lit(W_padov)>>, \* pharmaceutical.*sciences.*padov
       <<Lit(<<"p", "h", "a", "r", "m", "a", "c", "o", "l", "o", "g", "i", "c", "a", "l">>), Star(Dot), Lit(<<"s", "c", "i", "e", "n", "c", "e", "s">>), Star(Dot), Lit(W_padov)>>, \* pharmacological.*sciences.*padov
       <<Lit(<<"s", "c", "i", "e", "n", "z", "e">>), Star(Dot), Lit(<<"d", "e", "l">>), Star(Dot), Lit(W_farmaco)>> >> \* scienze.*del.*farmaco

(***************************************************************************)
(* Affiliation strings used as inputs                                      *)
(***************************************************************************)
AFF_dctv_pd == <<"D", "C", "T", "V", ",", " ", "P", "a", "d", "o", "v", "a">> \* DCTV, Padova
AFF_sdf == <<"S", "c", "i", "e", "n", "z", "e", " ", "d", "e", "l", " ", "F", "a", "r", "m", "a", "c", "o">> \* Scienze del Farmaco
AFF_unipd == <<"U", "n", "i", "v", "e", "r", "s", "i", "t", "y", " ", "o", "f", " ", "P", "a", "d", "o", "v", "a">> \* University of Padova
AFF_sdf_pd == <<"S", "c", "i", "e", "n", "z", "e", " ", "d", "e", "l", " ", "F", "a", "r", "m", "a", "c", "o", ",", " ", "P", "a", "d", "u", "a">> \* Scienze del Farmaco, Padua
AFF_legal_mi == <<"L", "E", "G", "A", "L", " ", "M", "E", "D", "I", "C", "I", "N", "E", ",", " ", "M", "i", "l", "a", "n">> \* LEGAL MEDICINE, Milan

(***************************************************************************)
(* Matcher: affiliation predicates                                         *)
(***************************************************************************)
\* mutant: the patterns are tried on each affiliation string separately
check_affiliation_match_per_string(affiliations, patterns) ==
    \E i \in 1..Len(affiliations) : \E k \in 1..Len(patterns) :
        re_search_i(patterns[k], lower(affiliations[i]))

\* mutant: the loop returns after its first pattern
check_affiliation_match_first_pattern(affiliations, patterns) ==
    LET all_affs == lower(join(<<" ">>, affiliations))
    IN Len(patterns) > 0 /\ re_search_i(patterns[1], all_affs)

\* check_affiliation_match (same text in stage 2 and stage 3)
check_affiliation_match(affiliations, patterns) ==
    LET all_affs == lower(join(<<" ">>, affiliations))
        RECURSIVE loop(_)
        loop(k) == IF k > Len(patterns) THEN FALSE
                   ELSE IF re_search_i(patterns[k], all_affs) THEN TRUE
                   ELSE loop(k + 1)
    IN loop(1)

\* inner loop of get_matching_affiliations: does some pattern match aff alone
RECURSIVE any_pattern_matches(_, _, _)
any_pattern_matches(aff, patterns, k) ==
    IF k > Len(patterns) THEN FALSE
    ELSE IF re_search_i(patterns[k], aff) THEN TRUE
    ELSE any_pattern_matches(aff, patterns, k + 1)

\* get_matching_affiliations, stage 2: every matching string is appended
get_matching_affiliations_s2(affiliations, patterns) ==
    LET RECURSIVE loop(_, _)
        loop(i, matches) ==
            IF i > Len(affiliations) THEN matches
            ELSE IF any_pattern_matches(affiliations[i], patterns, 1)
                 THEN loop(i + 1, Append(matches, affiliations[i]))
                 ELSE loop(i + 1, matches)
    IN loop(1, <<>>)

\* get_matching_affiliations, stage 3: appended only if not yet in matches
get_matching_affiliations_s3(affiliations, patterns) ==
    LET RECURSIVE loop(_, _)
        loop(i, matches) ==
            IF i > Len(affiliations) THEN matches
            ELSE IF any_pattern_matches(affiliations[i], patterns, 1)
                      /\ ~list_in(affiliations[i], matches)
                 THEN loop(i + 1, Append(matches, affiliations[i]))
                 ELSE loop(i + 1, matches)
    IN loop(1, <<>>)


(***************************************************************************)
(* Matcher: author reconciliation (stage 3)                                *)
(***************************************************************************)
\* s.strip()
strip(s) ==
    LET keep == {i \in 1..Len(s) : ~is_space(s[i])}
    IN IF keep = {} THEN <<>>
       ELSE LET lo == CHOOSE i \in keep : \A j \in keep : i <= j
                hi == CHOOSE i \in keep : \A j \in keep : j <= i
            IN SubSeq(s, lo, hi)

\* s.split(): the maximal runs of non-blank characters
RECURSIVE split_from(_, _, _, _)
split_from(s, i, cur, out) ==
    IF i > Len(s) THEN (IF Len(cur) > 0 THEN Append(out, cur) ELSE out)
    ELSE IF is_space(s[i])
         THEN split_from(s, i + 1, <<>>, IF Len(cur) > 0 THEN Append(out, cur) ELSE out)
         ELSE split_from(s, i + 1, Append(cur, s[i]), out)

split(s) == split_from(s, 1, <<>>, <<>>)

\* s[:n]
prefix(s, n) == SubSeq(s, 1, IF Len(s) < n THEN Len(s) ELSE n)

\* parts[:-1]
all_but_last(parts) == SubSeq(parts, 1, Len(parts) - 1)

\* the test of one author against one roster entry: the body of the inner loop
\* up to the append
author_matches_faculty(author, faculty) ==
    LET author_lower == strip(lower(author))
        fac_lower == strip(lower(faculty))
        fac_parts == split(fac_lower)
        author_parts == split(author_lower)
        fac_firstname == fac_parts[Len(fac_parts)]
        fac_lastname == join(<<" ">>, all_but_last(fac_parts))
        author_firstname == author_parts[Len(author_parts)]
        author_lastname == join(<<" ">>, all_but_last(author_parts))
    IN /\ Len(fac_parts) >= 2
       /\ Len(author_parts) >= 2
       /\ author_lastname = fac_lastname
       /\ Len(author_firstname) >= 5
       /\ Len(fac_firstname) >= 5
       /\ prefix(author_firstname, 5) = prefix(fac_firstname, 5)

\* mutant: no break after the append, one report per matching roster entry
check_author_in_list_no_break(authors, faculty_list) ==
    LET RECURSIVE inner(_, _, _)
        inner(author, k, matches) ==
            IF k > Len(faculty_list) THEN matches
            ELSE IF author_matches_faculty(author, faculty_list[k])
                 THEN inner(author, k + 1, Append(matches, author))
                 ELSE inner(author, k + 1, matches)
        RECURSIVE outer(_, _)
        outer(i, matches) ==
            IF i > Len(authors) THEN matches
            ELSE outer(i + 1, inner(authors[i], 1, matches))
    IN outer(1, <<>>)

\* mutant: the firstname prefixes are not compared
check_author_in_list_lastname_only(authors, faculty_list) ==
    LET hit(author, faculty) ==
            /\ Len(split(faculty)) >= 2
            /\ Len(split(author)) >= 2
            /\ lower(join(<<" ">>, all_but_last(split(author))))
                 = lower(join(<<" ">>, all_but_last(split(faculty))))
    IN SelectSeq(authors, LAMBDA a : \E k \in 1..Len(faculty_list) : hit(a, faculty_list[k]))

\* check_author_in_list
check_author_in_list(authors, faculty_list) ==
    LET RECURSIVE inner(_, _, _)
        inner(author, k, matches) ==
            IF k > Len(faculty_list) THEN matches
            ELSE IF author_matches_faculty(author, faculty_list[k])
                 THEN Append(matches, author)
                 ELSE inner(author, k + 1, matches)
        RECURSIVE outer(_, _)
        outer(i, matches) ==
            IF i > Len(authors) THEN matches
            ELSE outer(i + 1, inner(authors[i], 1, matches))
    IN outer(1, <<>>)

(***************************************************************************)
(* Faculty rosters (the entries the inputs below can meet) and author      *)
(* display names used as inputs                                            *)
(***************************************************************************)
FAC_baldo_vincenzo == <<"B", "a", "l", "d", "o", " ", "V", "i", "n", "c", "e", "n", "z", "o">> \* Baldo Vincenzo
FAC_basso_cristina == <<"B", "a", "s", "s", "o", " ", "C", "r", "i", "s", "t", "i", "n", "a">> \* Basso Cristina
FAC_perazzolo_marra_martina == <<"P", "e", "r", "a", "z", "z", "o", "l", "o", " ", "M", "a", "r", "r", "a", " ", "M", "a", "r", "t", "i", "n", "a">> \* Perazzolo Marra Martina
FAC_salmaso_stefano == <<"S", "a", "l", "m", "a", "s", "o", " ", "S", "t", "e", "f", "a", "n", "o">> \* Salmaso Stefano
FAC_dalla_via_lisa == <<"D", "a", "l", "l", "a", " ", "V", "i", "a", " ", "L", "i", "s", "a">> \* Dalla Via Lisa
FAC_de_filippis_vincenzo == <<"D", "e", " ", "F", "i", "l", "i", "p", "p", "i", "s", " ", "V", "i", "n", "c", "e", "n", "z", "o">> \* De Filippis Vincenzo
FAC_salmaso_veronica == <<"S", "a", "l", "m", "a", "s", "o", " ", "V", "e", "r", "o", "n", "i", "c", "a">> \* Salmaso Veronica

DCTV_FACULTY == <<FAC_baldo_vincenzo, FAC_basso_cristina, FAC_perazzolo_marra_martina>>

DSF_FACULTY == <<FAC_salmaso_stefano, FAC_dalla_via_lisa, FAC_de_filippis_vincenzo, FAC_salmaso_veronica>>

AU_de_filippis_vince == <<"D", "e", " ", "F", "i", "l", "i", "p", "p", "i", "s", " ", "V", "i", "n", "c", "e">> \* De Filippis Vince
AU_de_filippis_vi == <<"D", "e", " ", "F", "i", "l", "i", "p", "p", "i", "s", " ", "V", "i">> \* De Filippis Vi
AU_de_filippis_upper == <<"D", "E", " ", "F", "I", "L", "I", "P", "P", "I", "S", " ", "V", "I", "N", "C", "E", "N", "Z", "O">> \* DE FILIPPIS VINCENZO
AU_vincenzo == <<"V", "i", "n", "c", "e", "n", "z", "o">> \* Vincenzo
AU_salmaso_stefania == <<"S", "a", "l", "m", "a", "s", "o", " ", "S", "t", "e", "f", "a", "n", "i", "a">> \* Salmaso Stefania
AU_rossi_mario == <<"R", "o", "s", "s", "i", " ", "M", "a", "r", "i", "o">> \* Rossi Mario
(***************************************************************************)
(* Record parser.  The text of a fetched document is a sequence of lexical *)
(* tokens [kind, rec]:                                                     *)
(*   "prolog"     the text <?xml version="1.0"                             *)
(*   "decl_end"   the text  ?> that closes the declaration                 *)
(*   "decl_sq"    the declaration <?xml version='1.0'?>                    *)
(*   "ws"         white space                                              *)
(*   "set_open"   <PubmedArticleSet>                                       *)
(*   "set_close"  </PubmedArticleSet>                                      *)
(*   "record"     one complete PubmedArticle element, described by rec     *)
(*   "trunc"      the beginning of a PubmedArticle element, cut off        *)
(* The text <?xml version="1.0" occurs in a text as the token "prolog"     *)
(* only.  Python's None is the value None, which is no string: a string is *)
(* a tuple of one-character strings.  An element that find() may return is *)
(* [present, text]: present is FALSE when find() returns None, text is     *)
(* None when the element begins with no character data.                    *)
(***************************************************************************)
None == <<"None">>

Elem(t) == [present |-> TRUE, text |-> t]

NoElem == [present |-> FALSE, text |-> None]

\* the PMID element: identifiers are TLA+ strings
Pmid(t) == [present |-> TRUE, text |-> t]

NoPmid == [present |-> FALSE, text |-> ""]

\* an Affiliation element inside an AffiliationInfo, and one outside
InfoAff(t) == [in_info |-> TRUE, text |-> t]

LegacyAff(t) == [in_info |-> FALSE, text |-> t]

\* an Author element with its LastName and ForeName children
Author(lastname, forename) == [lastname |-> lastname, forename |-> forename]

NoRec ==
    [pmid |-> NoPmid, title |-> NoElem, journal |-> NoElem, year |-> NoElem,
     medline_date |-> NoElem, affiliation_elems |-> <<>>, authors |-> <<>>]

Tok(kind) == [kind |-> kind, rec |-> NoRec]

RecordTok(rec) == [kind |-> "record", rec |-> rec]

\* "x.text" used as a condition
truthy(text) == text # None /\ Len(text) > 0

\* year_elem.text[:4] if year_elem is not None and year_elem.text else ""
year_of(rec) ==
    LET year_elem == IF rec.year.present THEN rec.year ELSE rec.medline_date
    IN IF year_elem.present /\ truthy(year_elem.text) THEN prefix(year_elem.text, 4) ELSE <<>>

\* the two loops that fill affiliations: './/AffiliationInfo/Affiliation', then
\* './/Affiliation' (which finds the elements of the first loop again)
affiliations_of(rec) ==
    LET elems == rec.affiliation_elems
        RECURSIVE info_loop(_, _)
        info_loop(i, affiliations) ==
            IF i > Len(elems) THEN affiliations
            ELSE IF elems[i].in_info /\ truthy(elems[i].text)
                 THEN info_loop(i + 1, Append(affiliations, elems[i].text))
                 ELSE info_loop(i + 1, affiliations)
        RECURSIVE any_loop(_, _)
        any_loop(i, affiliations) ==
            IF i > Len(elems) THEN affiliations
            ELSE IF truthy(elems[i].text) /\ ~list_in(elems[i].text, affiliations)
                 THEN any_loop(i + 1, Append(affiliations, elems[i].text))
                 ELSE any_loop(i + 1, affiliations)
    IN any_loop(1, info_loop(1, <<>>))

\* the loop that fills authors; raises is the TypeError of None + str or of
\* str + None
authors_of(rec) ==
    LET RECURSIVE loop(_, _)
        loop(i, authors) ==
            IF i > Len(rec.authors) THEN [raises |-> FALSE, authors |-> authors]
            ELSE LET lastname == rec.authors[i].lastname
                     forename == rec.authors[i].forename
                 IN IF ~lastname.present THEN loop(i + 1, authors)
                    ELSE IF ~forename.present THEN loop(i + 1, Append(authors, lastname.text))
                    ELSE IF lastname.text = None \/ forename.text = None
                         THEN [raises |-> TRUE, authors |-> authors]
                         ELSE loop(i + 1, Append(authors, lastname.text \o <<" ">> \o forename.text))
    IN loop(1, <<>>)

\* the body of "for article in root.findall('.//PubmedArticle')"
extract_article(rec) ==
    LET pmid == IF rec.pmid.present THEN rec.pmid.text ELSE "Unknown"
        title == IF rec.title.present THEN rec.title.text ELSE <<"N", "o", " ", "t", "i", "t", "l", "e">>
        journal == IF rec.journal.present THEN rec.journal.text ELSE <<>>
        au == authors_of(rec)
    IN [raises |-> au.raises,
        article |-> [pmid |-> pmid, title |-> title, journal |-> journal, year |-> year_of(rec),
                     authors |-> au.authors, affiliations |-> affiliations_of(rec)]]

\* the loop over the PubmedArticle elements of one root
extract_articles(records) ==
    LET RECURSIVE loop(_, _)
        loop(i, articles) ==
            IF i > Len(records) THEN [raises |-> FALSE, articles |-> articles]
            ELSE LET one == extract_article(records[i])
                 IN IF one.raises THEN [raises |-> TRUE, articles |-> <<>>]
                    ELSE loop(i + 1, Append(articles, one.article))
    IN loop(1, <<>>)

kinds(text) == [i \in 1..Len(text) |-> text[i].kind]

\* ET.fromstring followed by findall('.//PubmedArticle'): ok is FALSE for
\* ET.ParseError.  A text is well formed when it is an optional declaration
\* at its very beginning, then one PubmedArticleSet element holding complete
\* records, with white space allowed around and between them.
fromstring(text) ==
    LET k == kinds(text)
        body_from ==
            IF Len(k) >= 2 /\ k[1] = "prolog" /\ k[2] = "decl_end" THEN 3
            ELSE IF Len(k) >= 1 /\ k[1] = "decl_sq" THEN 2
            ELSE 1
        body == SelectSeq(SubSeq(text, body_from, Len(text)), LAMBDA t : t.kind # "ws")
        n == Len(body)
        ok == /\ n >= 2
              /\ body[1].kind = "set_open"
              /\ body[n].kind = "set_close"
              /\ \A i \in 2..(n - 1) : body[i].kind = "record"
    IN [ok |-> ok,
        records |-> IF ok THEN [i \in 1..(n - 2) |-> body[i + 1].rec] ELSE <<>>]

\* parse_xml (stage 3): ET.ParseError gives the empty list, any other
\* exception leaves the function
parse_xml(xml_data) ==
    LET root == fromstring(xml_data)
    IN IF root.ok THEN extract_articles(root.records)
       ELSE [raises |-> FALSE, articles |-> <<>>]

\* xml_data.split('<?xml version="1.0"')
split_on_prolog(xml_data) ==
    LET RECURSIVE loop(_, _, _)
        loop(i, chunk, xml_chunks) ==
            IF i > Len(xml_data) THEN Append(xml_chunks, chunk)
            ELSE IF xml_data[i].kind = "prolog" THEN loop(i + 1, <<>>, Append(xml_chunks, chunk))
            ELSE loop(i + 1, Append(chunk, xml_data[i]), xml_chunks)
    IN loop(1, <<>>, <<>>)

\* "not chunk.strip()"
is_blank(chunk) == \A i \in 1..Len(chunk) : chunk[i].kind = "ws"

\* chunk.startswith('<?xml')
startswith_xml(chunk) == Len(chunk) > 0 /\ chunk[1].kind \in {"prolog", "decl_sq"}

\* parse_articles (stage 2): the chunks of xml_data, each parsed on its own
parse_articles(xml_data) ==
    LET xml_chunks == split_on_prolog(xml_data)
        RECURSIVE loop(_, _)
        loop(i, articles) ==
            IF i > Len(xml_chunks) THEN [raises |-> FALSE, articles |-> articles]
            ELSE IF is_blank(xml_chunks[i]) THEN loop(i + 1, articles)
            ELSE LET chunk == IF startswith_xml(xml_chunks[i]) THEN xml_chunks[i]
                              ELSE <<Tok("prolog")>> \o xml_chunks[i]
                     root == fromstring(chunk)
                     found == extract_articles(root.records)
                 IN IF ~root.ok THEN loop(i + 1, articles)
                    ELSE IF found.raises THEN [raises |-> TRUE, articles |-> <<>>]
                    ELSE loop(i + 1, articles \o found.articles)
    IN loop(1, <<>>)

\* "Title: {article['title'][:100]}{'...' if len(article['title']) > 100 else ''}"
\* of the stage-3 listing: raises is the TypeError of None[:100]
format_title_s3(title) ==
    IF title = None THEN [raises |-> TRUE, line |-> <<>>]
    ELSE [raises |-> FALSE,
          line |-> prefix(title, 100) \o (IF Len(title) > 100 THEN <<".", ".", ".">> ELSE <<>>)]

(***************************************************************************)
(* Search client: the decoded outcome of one esearch request is resp, with *)
(* resp.kind one of                                                        *)
(*   "transport_error"  urlopen raises                                     *)
(*   "bad_json"         json.loads raises                                  *)
(*   "not_object"       the JSON text or its esearchresult is no object    *)
(*   "count_nan"        count is not the text of a number                  *)
(*   "idlist_null"      idlist is present and null                         *)
(*   "ok"               a well-formed envelope                             *)
(* A result is [is_none, pmids, count]: is_none tells Python's None from a *)
(* list.                                                                   *)
(***************************************************************************)
EmptyResult == [is_none |-> FALSE, pmids |-> <<>>, count |-> 0]

RaisesInDecode(resp) == resp.kind \in {"transport_error", "bad_json", "not_object"}

\* search_pubmed, stage 3: returns (pmids, int(count)); int() is inside the try
search_pubmed_s3(resp) ==
    IF RaisesInDecode(resp) \/ resp.kind = "count_nan" THEN EmptyResult
    ELSE [is_none |-> resp.kind = "idlist_null", pmids |-> resp.idlist, count |-> resp.count]

\* search_pubmed, stage 2: returns pmids; len(pmids) is inside the try, the
\* count is only printed
search_pubmed_s2(resp) ==
    IF RaisesInDecode(resp) \/ resp.kind = "idlist_null" THEN EmptyResult
    ELSE [is_none |-> FALSE, pmids |-> resp.idlist, count |-> 0]

(***************************************************************************)
(* Record fetcher                                                          *)
(***************************************************************************)
BATCH_s2 == 2

BATCH_s3 == 1

\* mutant: the slice is one identifier too long
batch_at_overlapping(pmids, i, size) ==
    SubSeq(pmids, i, IF i + size > Len(pmids) THEN Len(pmids) ELSE i + size)

\* pmids[i:i+size], with i counted from 1
batch_at(pmids, i, size) ==
    SubSeq(pmids, i, IF i + size - 1 > Len(pmids) THEN Len(pmids) ELSE i + size - 1)

(***************************************************************************)
(* Collaboration decision, deduplication and ordering                      *)
(***************************************************************************)
\* 'padov' in all_affs or 'padua' in all_affs
is_padova(affiliations) ==
    LET all_affs == lower(join(<<" ">>, affiliations))
    IN contains(all_affs, W_padov) \/ contains(all_affs, W_padua)

\* mutant: the location test is left out
has_both_s2_no_location(article) ==
    /\ check_affiliation_match(article.affiliations, DCTV_PATTERNS_s2)
    /\ check_affiliation_match(article.affiliations, DSF_PATTERNS_s2)

\* stage 2: has_dctv and has_dsf, then the Padova test
has_both_s2(article) ==
    LET has_dctv == check_affiliation_match(article.affiliations, DCTV_PATTERNS_s2)
        has_dsf == check_affiliation_match(article.affiliations, DSF_PATTERNS_s2)
    IN IF has_dctv /\ has_dsf THEN is_padova(article.affiliations) ELSE FALSE

\* mutant: an article is kept only if a roster author is among its authors
has_both_affiliations_s3_gated(article) ==
    /\ check_affiliation_match(article.affiliations, DCTV_PATTERNS_s3)
    /\ check_affiliation_match(article.affiliations, DSF_PATTERNS_s3)
    /\ is_padova(article.affiliations)
    /\ \/ Len(check_author_in_list(article.authors, DCTV_FACULTY)) > 0
       \/ Len(check_author_in_list(article.authors, DSF_FACULTY)) > 0

\* stage 3: has_both_affiliations
has_both_affiliations_s3(article) ==
    LET is_pd == is_padova(article.affiliations)
        has_dctv_aff == check_affiliation_match(article.affiliations, DCTV_PATTERNS_s3)
        has_dsf_aff == check_affiliation_match(article.affiliations, DSF_PATTERNS_s3)
    IN has_dctv_aff /\ has_dsf_aff /\ is_pd

\* the derived fields stage 2 sets on an included article
annotate_s2(article) ==
    [dctv_affiliations |-> get_matching_affiliations_s2(article.affiliations, DCTV_PATTERNS_s2),
     dsf_affiliations |-> get_matching_affiliations_s2(article.affiliations, DSF_PATTERNS_s2)]
    @@ article

\* the derived fields stage 3 sets on an included article
annotate_s3(article) ==
    [dctv_affiliations |-> get_matching_affiliations_s3(article.affiliations, DCTV_PATTERNS_s3),
     dsf_affiliations |-> get_matching_affiliations_s3(article.affiliations, DSF_PATTERNS_s3),
     dctv_authors |-> check_author_in_list(article.authors, DCTV_FACULTY),
     dsf_authors |-> check_author_in_list(article.authors, DSF_FACULTY)]
    @@ article

\* the values has_both takes in the filter loop, one per article
filter_decisions(st, arts) ==
    [i \in 1..Len(arts) |->
        IF st = 2 THEN has_both_s2(arts[i]) ELSE has_both_affiliations_s3(arts[i])]

\* mutant: the derived fields are set before the test, on every article
filter_annotate_before_test(st, arts, keep) ==
    [i \in 1..Len(arts) |-> IF st = 2 THEN annotate_s2(arts[i]) ELSE annotate_s3(arts[i])]

\* the article objects after the filter loop: the included ones carry the
\* derived fields (collaborations holds the same objects)
filter_annotate(st, arts, keep) ==
    [i \in 1..Len(arts) |->
        IF keep[i] THEN (IF st = 2 THEN annotate_s2(arts[i]) ELSE annotate_s3(arts[i]))
        ELSE arts[i]]

\* collaborations after the filter loop
RECURSIVE filter_collect(_, _, _)
filter_collect(arts, keep, i) ==
    IF i > Len(arts) THEN <<>>
    ELSE IF keep[i] THEN <<arts[i]>> \o filter_collect(arts, keep, i + 1)
    ELSE filter_collect(arts, keep, i + 1)

\* "Remove duplicates by PMID" (stage 3)
remove_duplicates(collabs) ==
    LET RECURSIVE loop(_, _, _)
        loop(i, seen, unique_collabs) ==
            IF i > Len(collabs) THEN unique_collabs
            ELSE IF collabs[i].pmid \notin seen
                 THEN loop(i + 1, seen \cup {collabs[i].pmid}, Append(unique_collabs, collabs[i]))
                 ELSE loop(i + 1, seen, unique_collabs)
    IN loop(1, {}, <<>>)

\* code points of the characters a year is compared by
ORD_TABLE == <<"0", "1", "2", "3", "4", "5", "6", "7", "8", "9">>

ord(c) == 47 + (CHOOSE k \in 1..Len(ORD_TABLE) : ORD_TABLE[k] = c)

\* Python's a < b on strings
RECURSIVE str_lt(_, _)
str_lt(a, b) ==
    IF Len(b) = 0 THEN FALSE
    ELSE IF Len(a) = 0 THEN TRUE
    ELSE IF Head(a) = Head(b) THEN str_lt(Tail(a), Tail(b))
    ELSE ord(Head(a)) < ord(Head(b))

\* mutant: reverse=True is missing
sort_by_year_ascending(collabs) ==
    LET RECURSIVE insert(_, _)
        insert(sorted, c) ==
            IF Len(sorted) = 0 THEN <<c>>
            ELSE IF str_lt(c.year, Head(sorted).year) THEN <<c>> \o sorted
            ELSE <<Head(sorted)>> \o insert(Tail(sorted), c)
        RECURSIVE loop(_, _)
        loop(i, sorted) == IF i > Len(collabs) THEN sorted ELSE loop(i + 1, insert(sorted, collabs[i]))
    IN loop(1, <<>>)

\* collaborations.sort(key=year, reverse=True): stable, equal years keep
\* their order
sort_by_year(collabs) ==
    LET RECURSIVE insert(_, _)
        insert(sorted, c) ==
            IF Len(sorted) = 0 THEN <<c>>
            ELSE IF str_lt(Head(sorted).year, c.year) THEN <<c>> \o sorted
            ELSE <<Head(sorted)>> \o insert(Tail(sorted), c)
        RECURSIVE loop(_, _)
        loop(i, sorted) == IF i > Len(collabs) THEN sorted ELSE loop(i + 1, insert(sorted, collabs[i]))
    IN loop(1, <<>>)

(***************************************************************************)
(* PubmedArticle elements and documents the server may send                *)
(***************************************************************************)
AFF_dctv_mi == <<"D", "C", "T", "V", ",", " ", "M", "i", "l", "a", "n">> \* DCTV, Milan
YEAR_2019 == <<"2", "0", "1", "9">>
YEAR_2023 == <<"2", "0", "2", "3">>
YEAR_2024 == <<"2", "0", "2", "4">>


\* both departments, Padova; a DSF roster author
REC_1a ==
    [pmid |-> Pmid("1"), title |-> Elem(<<"T", "1", "a">>), journal |-> Elem(<<"J", "1">>),
     year |-> Elem(YEAR_2023), medline_date |-> NoElem,
     affiliation_elems |-> <<InfoAff(AFF_dctv_pd), InfoAff(AFF_sdf_pd)>>,
     authors |-> <<Author(Elem(<<"D", "e", " ", "F", "i", "l", "i", "p", "p", "i", "s">>), Elem(<<"V", "i", "n", "c", "e", "n", "z", "o">>)), Author(Elem(<<"R", "o", "s", "s", "i">>), Elem(<<"M", "a", "r", "i", "o">>))>>]

\* same identifier as REC_1a; the DSF match spans two strings in stage 3; the
\* year comes from MedlineDate
REC_1b ==
    [pmid |-> Pmid("1"), title |-> Elem(<<"T", "1", "b">>), journal |-> Elem(<<"J", "1">>),
     year |-> NoElem, medline_date |-> Elem(<<"2", "0", "1", "9", " ", "J", "a", "n", "-", "F", "e", "b">>),
     affiliation_elems |-> <<InfoAff(AFF_dctv_pd), InfoAff(AFF_sdf), InfoAff(AFF_unipd)>>,
     authors |-> <<Author(Elem(<<"R", "o", "s", "s", "i">>), Elem(<<"M", "a", "r", "i", "o">>))>>]

\* the affiliations of REC_1a with other authors; no date, old-style
\* affiliations, one of them twice
REC_2a ==
    [pmid |-> Pmid("2"), title |-> Elem(<<"T", "2", "a">>), journal |-> Elem(<<"J", "2">>),
     year |-> NoElem, medline_date |-> NoElem,
     affiliation_elems |-> <<LegacyAff(AFF_dctv_pd), LegacyAff(AFF_sdf_pd), LegacyAff(AFF_dctv_pd)>>,
     authors |-> <<Author(Elem(<<"R", "o", "s", "s", "i">>), Elem(<<"M", "a", "r", "i", "o">>))>>]

\* one department only; Year and MedlineDate both present
REC_2b ==
    [pmid |-> Pmid("2"), title |-> Elem(<<"T", "2", "b">>), journal |-> Elem(<<"J", "2">>),
     year |-> Elem(YEAR_2023), medline_date |-> Elem(<<"1", "9", "9", "9">>),
     affiliation_elems |-> <<InfoAff(AFF_dctv_pd), InfoAff(AFF_unipd)>>,
     authors |-> <<Author(Elem(<<"B", "a", "l", "d", "o">>), Elem(<<"V", "i", "n", "c", "e", "n", "z", "o">>))>>]

\* both departments, Padova; one Affiliation element without text
REC_3a ==
    [pmid |-> Pmid("3"), title |-> Elem(<<"T", "3", "a">>), journal |-> Elem(<<"J", "3">>),
     year |-> Elem(YEAR_2024), medline_date |-> NoElem,
     affiliation_elems |-> <<InfoAff(AFF_sdf_pd), InfoAff(None), InfoAff(AFF_dctv_pd)>>,
     authors |-> <<Author(Elem(<<"B", "a", "l", "d", "o">>), Elem(<<"V", "i", "n", "c", "e", "n", "z", "o">>)), Author(Elem(<<"D", "e", " ", "F", "i", "l", "i", "p", "p", "i", "s">>), Elem(<<"V", "i", "n", "c", "e">>))>>]

\* both departments by the stage-2 patterns, not in Padova; the only Author
\* element has no LastName
REC_3b ==
    [pmid |-> Pmid("3"), title |-> Elem(<<"T", "3", "b">>), journal |-> Elem(<<"J", "3">>),
     year |-> Elem(YEAR_2019), medline_date |-> NoElem,
     affiliation_elems |-> <<InfoAff(AFF_dctv_mi), InfoAff(AFF_sdf)>>,
     authors |-> <<Author(NoElem, Elem(<<"M", "a", "r", "i", "o">>))>>]

\* REC_3a with an ArticleTitle that begins with markup: its text is None
REC_3c ==
    [pmid |-> Pmid("3"), title |-> Elem(None), journal |-> Elem(<<"J", "3">>),
     year |-> Elem(YEAR_2024), medline_date |-> NoElem,
     affiliation_elems |-> <<InfoAff(AFF_sdf_pd), InfoAff(AFF_dctv_pd)>>,
     authors |-> <<Author(Elem(<<"B", "a", "l", "d", "o">>), Elem(<<"V", "i", "n", "c", "e", "n", "z", "o">>))>>]

\* an Author whose LastName has no text, with a ForeName
REC_bad_author ==
    [pmid |-> Pmid("2"), title |-> Elem(<<"T", "2", "a">>), journal |-> Elem(<<"J", "2">>),
     year |-> Elem(YEAR_2023), medline_date |-> NoElem,
     affiliation_elems |-> <<InfoAff(AFF_dctv_pd)>>,
     authors |-> <<Author(Elem(None), Elem(<<"M", "a", "r", "i", "o">>))>>]

\* two authors with the same affiliation string, which is also the old-style one
REC_shared_aff ==
    [pmid |-> Pmid("1"), title |-> Elem(<<"T", "1", "a">>), journal |-> Elem(<<"J", "1">>),
     year |-> Elem(YEAR_2023), medline_date |-> NoElem,
     affiliation_elems |-> <<InfoAff(AFF_dctv_pd), InfoAff(AFF_dctv_pd), InfoAff(AFF_sdf_pd),
                             LegacyAff(AFF_unipd), LegacyAff(AFF_dctv_pd), LegacyAff(AFF_unipd)>>,
     authors |-> <<Author(Elem(<<"D", "e", " ", "F", "i", "l", "i", "p", "p", "i", "s">>), Elem(<<"V", "i", "n", "c", "e", "n", "z", "o">>)), Author(Elem(<<"R", "o", "s", "s", "i">>), Elem(<<"M", "a", "r", "i", "o">>))>>]

\* no ArticleTitle, a Title without text, a MedlineDate that begins with a season
REC_season ==
    [pmid |-> Pmid("2"), title |-> NoElem, journal |-> Elem(None),
     year |-> NoElem, medline_date |-> Elem(<<"S", "p", "r", "i", "n", "g", " ", "2", "0", "0", "0">>),
     affiliation_elems |-> <<>>,
     authors |-> <<Author(Elem(<<"R", "o", "s", "s", "i">>), NoElem)>>]

\* a Year element without text before a MedlineDate, and a Year of two digits
REC_empty_year ==
    [pmid |-> Pmid("3"), title |-> Elem(<<"T", "3", "b">>), journal |-> NoElem,
     year |-> Elem(None), medline_date |-> Elem(<<"2", "0", "1", "9", " ", "J", "a", "n", "-", "F", "e", "b">>),
     affiliation_elems |-> <<>>, authors |-> <<>>]

REC_short_year ==
    [pmid |-> Pmid("3"), title |-> Elem(<<"T", "3", "b">>), journal |-> NoElem,
     year |-> Elem(<<"1", "9">>), medline_date |-> NoElem,
     affiliation_elems |-> <<>>, authors |-> <<>>]

record_toks(records) == [i \in 1..Len(records) |-> RecordTok(records[i])]

\* the document efetch sends for records: declaration, line break, root element
document(records) ==
    <<Tok("prolog"), Tok("decl_end"), Tok("ws"), Tok("set_open")>>
        \o record_toks(records) \o <<Tok("set_close"), Tok("ws")>>

\* a body that stops inside a record: the records sent so far, then a cut-off one
truncated(records) ==
    <<Tok("prolog"), Tok("decl_end"), Tok("ws"), Tok("set_open")>>
        \o record_toks(records) \o <<Tok("trunc")>>

\* the same root element sent without a declaration
bare_document(records) ==
    <<Tok("set_open")>> \o record_toks(records) \o <<Tok("set_close")>>

\* the same root element after a declaration written with single quotes
single_quoted_document(records) ==
    <<Tok("decl_sq"), Tok("set_open")>> \o record_toks(records) \o <<Tok("set_close")>>

\* a document that begins with a line break
late_document(records) == <<Tok("ws")>> \o document(records)

\* str + str over a sequence of texts
RECURSIVE concat(_)
concat(texts) == IF Len(texts) = 0 THEN <<>> ELSE Head(texts) \o concat(Tail(texts))

(***************************************************************************)
(* Bounds and input sets                                                   *)
(***************************************************************************)
MaxAffs == 2

MaxAuthors == 2

MaxQueries_s2 == 2

MaxAffQueries_s3 == 1

MaxNameQueries_s3 == 1

MaxDocs == 2

\* all sequences over S of length at most n
RECURSIVE SeqsUpTo(_, _)
SeqsUpTo(S, n) ==
    IF n = 0 THEN {<<>>}
    ELSE LET shorter == SeqsUpTo(S, n - 1)
         IN shorter \cup {Append(q, x) : q \in shorter, x \in S}

\* the orders in which list(S) can enumerate the set S
Orderings(S) ==
    {f \in [1..Cardinality(S) -> S] : \A i, j \in 1..Cardinality(S) : i # j => f[i] # f[j]}

AFFS == {AFF_dctv_pd, AFF_sdf, AFF_unipd, AFF_sdf_pd, AFF_legal_mi}

\* pattern sets a caller may pass: the four of the program, the empty one,
\* and three one-pattern sets (".*", "dctv" and "farmaco$")
PATTERN_SETS ==
    {DCTV_PATTERNS_s3, DSF_PATTERNS_s3, DCTV_PATTERNS_s2, DSF_PATTERNS_s2,
     <<>>, << <<Star(Dot)>> >>, << <<Lit(W_dctv)>> >>, << <<Lit(W_farmaco), Eol>> >>}

AUTHORS ==
    {FAC_de_filippis_vincenzo, AU_de_filippis_vince, AU_de_filippis_vi, AU_de_filippis_upper,
     AU_vincenzo, AU_salmaso_stefania, FAC_salmaso_stefano, AU_rossi_mario}

\* rosters a caller may pass: the two of the program, a one-token entry, and
\* two entries that agree on lastname and on the first five firstname letters
ROSTERS ==
    {DCTV_FACULTY, DSF_FACULTY, <<AU_vincenzo>>, <<FAC_salmaso_stefano, AU_salmaso_stefania>>}

ID_LISTS == {<<>>, <<"1">>, <<"2", "3">>, <<"3", "1", "2">>}

\* what an esearch request can come back with
RESPONSES ==
    {[kind |-> k, idlist |-> <<>>, count |-> 0] :
        k \in {"transport_error", "bad_json", "not_object", "idlist_null"}}
    \cup {[kind |-> "count_nan", idlist |-> <<"1">>, count |-> 0]}
    \cup {[kind |-> "ok", idlist |-> l, count |-> Len(l)] : l \in ID_LISTS}

\* the PubmedArticle elements the server may hold for an identifier
SERVED ==
    [id \in {"1", "2", "3"} |->
        CASE id = "1" -> {<<REC_1a, REC_1b>>, <<REC_1b, REC_1a>>}
          [] id = "2" -> {<<REC_2a>>, <<REC_2b>>}
          [] id = "3" -> {<<REC_3a>>, <<REC_3b>>, <<REC_3c>>}]

\* the element sequences a document for batch may hold: for each identifier
\* of the batch, in order, one of the sequences served for it
RECURSIVE RecordsFor(_)
RecordsFor(batch) ==
    IF Len(batch) = 0 THEN {<<>>}
    ELSE {r \o rest : r \in SERVED[Head(batch)], rest \in RecordsFor(Tail(batch))}

\* what an efetch request for batch can come back with: an exception (ok is
\* FALSE), or a body cut off, or a document with an Author that cannot be
\* read, or a document with the records of the batch
FETCH_OUTCOMES(batch) ==
    {[ok |-> FALSE, doc |-> <<>>],
     [ok |-> TRUE, doc |-> truncated(<<>>)],
     [ok |-> TRUE, doc |-> document(<<REC_bad_author>>)]}
    \cup {[ok |-> TRUE, doc |-> document(r)] : r \in RecordsFor(batch)}

\* the documents a payload handed to the parser may be made of
PARSE_DOCS ==
    {document(<<REC_1a>>), document(<<REC_1b, REC_2a>>), document(<<>>),
     document(<<REC_shared_aff>>), document(<<REC_season>>), document(<<REC_3c>>),
     document(<<REC_empty_year, REC_short_year>>), document(<<REC_bad_author>>),
     truncated(<<REC_1a>>), truncated(<<>>),
     bare_document(<<REC_2b>>), single_quoted_document(<<REC_3a>>), late_document(<<REC_3b>>)}

VARIABLES
    m_affiliations, m_patterns, m_done, m_has, m_matches_s2, m_matches_s3,
    a_authors, a_faculty_list, a_done, a_matches,
    stage, pc, q, all_pmids, last_search, pmids, b, fetch_log, all_xml, articles,
    has_both, collaborations, files_written, trace,
    p_payload, p_done, p_parse_articles, p_parse_xml, p_titles,
    s1_pc, s1_part, s1_q, s1_affiliations, s1_found, s1_listing, s1_file

m_vars == <<m_affiliations, m_patterns, m_done, m_has, m_matches_s2, m_matches_s3>>

a_vars == <<a_authors, a_faculty_list, a_done, a_matches>>

run_vars ==
    <<stage, pc, q, all_pmids, last_search, pmids, b, fetch_log, all_xml, articles,
      has_both, collaborations, files_written, trace>>

p_vars == <<p_payload, p_done, p_parse_articles, p_parse_xml, p_titles>>

s1_vars == <<s1_pc, s1_part, s1_q, s1_affiliations, s1_found, s1_listing, s1_file>>

vars == <<m_vars, a_vars, run_vars, p_vars, s1_vars>>

\* the variables of the matcher specification at rest
MatchIdle ==
    /\ m_affiliations = <<>>
    /\ m_patterns = <<>>
    /\ m_done = {}
    /\ m_has = FALSE
    /\ m_matches_s2 = <<>>
    /\ m_matches_s3 = <<>>

\* the variables of the author specification at rest
AuthorIdle ==
    /\ a_authors = <<>>
    /\ a_faculty_list = <<>>
    /\ a_done = FALSE
    /\ a_matches = <<>>

\* the variables of the parser specification at rest
ParseIdle ==
    /\ p_payload = <<>>
    /\ p_done = {}
    /\ p_parse_articles = [raises |-> FALSE, articles |-> <<>>]
    /\ p_parse_xml = <<>>
    /\ p_titles = <<>>

\* the variables of the screening specification at rest
ScreenIdle ==
    /\ s1_pc = "idle"
    /\ s1_part = "dctv"
    /\ s1_q = 0
    /\ s1_affiliations = [dctv |-> <<>>, dsf |-> <<>>]
    /\ s1_found = [dctv |-> {}, dsf |-> {}]
    /\ s1_listing = [dctv |-> <<>>, dsf |-> <<>>]
    /\ s1_file = <<>>

\* last_search is the search_pubmed call the query loop made last; none outside
\* the loop
NoSearch == [called |-> FALSE, resp |-> [kind |-> "ok", idlist |-> <<>>, count |-> 0],
             result |-> EmptyResult]

\* the variables of a run before its first step
RunStart ==
    /\ pc = "search"
    /\ q = 0
    /\ all_pmids = {}
    /\ last_search = NoSearch
    /\ pmids = <<>>
    /\ b = 1
    /\ fetch_log = <<>>
    /\ all_xml = <<>>
    /\ articles = <<>>
    /\ has_both = <<>>
    /\ collaborations = <<>>
    /\ files_written = FALSE
    /\ trace = <<>>

(***************************************************************************)
(* SpecMatch: the affiliation functions applied to bounded inputs          *)
(***************************************************************************)
InitMatch ==
    /\ m_affiliations \in SeqsUpTo(AFFS, MaxAffs)
    /\ m_patterns \in PATTERN_SETS
    /\ m_done = {}
    /\ m_has = FALSE
    /\ m_matches_s2 = <<>>
    /\ m_matches_s3 = <<>>
    /\ AuthorIdle
    /\ ParseIdle
    /\ ScreenIdle
    /\ stage = 3
    /\ RunStart

Call_check_affiliation_match ==
    /\ "check" \notin m_done
    /\ m_has' = check_affiliation_match(m_affiliations, m_patterns)
    /\ m_done' = m_done \cup {"check"}
    /\ UNCHANGED <<m_affiliations, m_patterns, m_matches_s2, m_matches_s3, a_vars, run_vars, p_vars, s1_vars>>

Call_get_matching_affiliations ==
    /\ "get" \notin m_done
    /\ m_matches_s2' = get_matching_affiliations_s2(m_affiliations, m_patterns)
    /\ m_matches_s3' = get_matching_affiliations_s3(m_affiliations, m_patterns)
    /\ m_done' = m_done \cup {"get"}
    /\ UNCHANGED <<m_affiliations, m_patterns, m_has, a_vars, run_vars, p_vars, s1_vars>>

NextMatch == Call_check_affiliation_match \/ Call_get_matching_affiliations

SpecMatch == InitMatch /\ [][NextMatch]_vars

(***************************************************************************)
(* SpecAuthor: check_author_in_list applied to bounded inputs              *)
(***************************************************************************)
InitAuthor ==
    /\ a_authors \in SeqsUpTo(AUTHORS, MaxAuthors)
    /\ a_faculty_list \in ROSTERS
    /\ a_done = FALSE
    /\ a_matches = <<>>
    /\ MatchIdle
    /\ ParseIdle
    /\ ScreenIdle
    /\ stage = 3
    /\ RunStart

Call_check_author_in_list ==
    /\ ~a_done
    /\ a_matches' = check_author_in_list(a_authors, a_faculty_list)
    /\ a_done' = TRUE
    /\ UNCHANGED <<a_authors, a_faculty_list, m_vars, run_vars, p_vars, s1_vars>>

NextAuthor == Call_check_author_in_list

SpecAuthor == InitAuthor /\ [][NextAuthor]_vars

(***************************************************************************)
(* SpecParse: the parsers, and the title line of the stage-3 listing,      *)
(* applied to bounded payloads                                             *)
(***************************************************************************)
InitParse ==
    /\ p_payload \in SeqsUpTo(PARSE_DOCS, MaxDocs)
    /\ p_done = {}
    /\ p_parse_articles = [raises |-> FALSE, articles |-> <<>>]
    /\ p_parse_xml = <<>>
    /\ p_titles = <<>>
    /\ MatchIdle
    /\ AuthorIdle
    /\ ScreenIdle
    /\ stage = 3
    /\ RunStart

\* the articles of the documents that parse_xml returned a list for
RECURSIVE parsed_articles(_)
parsed_articles(results) ==
    IF Len(results) = 0 THEN <<>>
    ELSE (IF Head(results).raises THEN <<>> ELSE Head(results).articles)
            \o parsed_articles(Tail(results))

\* stage 2: parse_articles on what fetch_articles returns for the payload
Call_parse_articles ==
    /\ "parse_articles" \notin p_done
    /\ p_parse_articles' = parse_articles(concat(p_payload))
    /\ p_done' = p_done \cup {"parse_articles"}
    /\ UNCHANGED <<p_payload, p_parse_xml, p_titles, m_vars, a_vars, run_vars, s1_vars>>

\* stage 3: parse_xml on each document of the payload
Call_parse_xml ==
    /\ "parse_xml" \notin p_done
    /\ p_parse_xml' = [d \in 1..Len(p_payload) |-> parse_xml(p_payload[d])]
    /\ p_done' = p_done \cup {"parse_xml"}
    /\ UNCHANGED <<p_payload, p_parse_articles, p_titles, m_vars, a_vars, run_vars, s1_vars>>

\* stage 3: the title line of the listing, for each parsed article
Call_format_title ==
    /\ "parse_xml" \in p_done
    /\ "format_title" \notin p_done
    /\ LET arts == parsed_articles(p_parse_xml)
       IN p_titles' = [i \in 1..Len(arts) |-> format_title_s3(arts[i].title)]
    /\ p_done' = p_done \cup {"format_title"}
    /\ UNCHANGED <<p_payload, p_parse_articles, p_parse_xml, m_vars, a_vars, run_vars, s1_vars>>

NextParse == Call_parse_articles \/ Call_parse_xml \/ Call_format_title

SpecParse == InitParse /\ [][NextParse]_vars

(***************************************************************************)
(* Spec: one run of main() of stage 2 or of stage 3                        *)
(***************************************************************************)
Init ==
    /\ stage \in {2, 3}
    /\ RunStart
    /\ MatchIdle
    /\ AuthorIdle
    /\ ParseIdle
    /\ ScreenIdle

to_set(lst) == {lst[i] : i \in 1..Len(lst)}

\* stage 2, one turn of "for query in search_queries"
Search_s2 ==
    /\ stage = 2
    /\ pc = "search"
    /\ q < MaxQueries_s2
    /\ \E resp \in RESPONSES :
          LET result == search_pubmed_s2(resp)
          IN /\ last_search' = [called |-> TRUE, resp |-> resp, result |-> result]
             /\ all_pmids' = all_pmids \cup to_set(result.pmids)
    /\ q' = q + 1
    /\ trace' = trace \o <<"search", "sleep">>
    /\ UNCHANGED <<stage, pc, pmids, b, fetch_log, all_xml, articles, has_both,
                   collaborations, files_written, m_vars, a_vars, p_vars, s1_vars>>

\* stage 3, one turn of "for q in affiliation_queries": len(pmids) is taken
\* unconditionally and raises TypeError on None
SearchAffiliation_s3 ==
    /\ stage = 3
    /\ pc = "search"
    /\ q < MaxAffQueries_s3
    /\ \E resp \in RESPONSES :
          LET result == search_pubmed_s3(resp)
          IN /\ last_search' = [called |-> TRUE, resp |-> resp, result |-> result]
             /\ IF result.is_none
                THEN /\ pc' = "crashed"
                     /\ trace' = Append(trace, "search")
                     /\ UNCHANGED <<q, all_pmids>>
                ELSE /\ all_pmids' = all_pmids \cup to_set(result.pmids)
                     /\ q' = q + 1
                     /\ trace' = trace \o <<"search", "sleep">>
                     /\ pc' = pc
    /\ UNCHANGED <<stage, pmids, b, fetch_log, all_xml, articles, has_both,
                   collaborations, files_written, m_vars, a_vars, p_vars, s1_vars>>

\* stage 3, one turn of the two faculty cross-search loops: "if pmids:" guards
\* the update
SearchNames_s3 ==
    /\ stage = 3
    /\ pc = "search"
    /\ q >= MaxAffQueries_s3
    /\ q < MaxAffQueries_s3 + MaxNameQueries_s3
    /\ \E resp \in RESPONSES :
          LET result == search_pubmed_s3(resp)
          IN /\ last_search' = [called |-> TRUE, resp |-> resp, result |-> result]
             /\ all_pmids' = IF ~result.is_none /\ Len(result.pmids) > 0
                             THEN all_pmids \cup to_set(result.pmids)
                             ELSE all_pmids
    /\ q' = q + 1
    /\ trace' = trace \o <<"search", "sleep">>
    /\ UNCHANGED <<stage, pc, pmids, b, fetch_log, all_xml, articles, has_both,
                   collaborations, files_written, m_vars, a_vars, p_vars, s1_vars>>

NumQueries == IF stage = 2 THEN MaxQueries_s2 ELSE MaxAffQueries_s3 + MaxNameQueries_s3

\* "if not all_pmids: ... return"
NothingFound ==
    /\ pc = "search"
    /\ q = NumQueries
    /\ all_pmids = {}
    /\ pc' = "done"
    /\ last_search' = NoSearch
    /\ UNCHANGED <<stage, q, all_pmids, pmids, b, fetch_log, all_xml, articles,
                   has_both, collaborations, files_written, trace, m_vars, a_vars, p_vars, s1_vars>>

\* fetch_articles(list(all_pmids)) is entered
StartFetch ==
    /\ pc = "search"
    /\ q = NumQueries
    /\ all_pmids # {}
    /\ pmids' \in Orderings(all_pmids)
    /\ b' = 1
    /\ pc' = "fetch"
    /\ last_search' = NoSearch
    /\ UNCHANGED <<stage, q, all_pmids, fetch_log, all_xml, articles,
                   has_both, collaborations, files_written, trace, m_vars, a_vars, p_vars, s1_vars>>

\* stage 2, one turn of the batch loop of fetch_articles
FetchBatch_s2 ==
    /\ stage = 2
    /\ pc = "fetch"
    /\ b <= Len(pmids)
    /\ LET batch == batch_at(pmids, b, BATCH_s2)
       IN \E out \in FETCH_OUTCOMES(batch) :
             /\ fetch_log' = Append(fetch_log, [batch |-> batch, ok |-> out.ok, doc |-> out.doc])
             /\ IF out.ok
                THEN /\ all_xml' = all_xml \o out.doc
                     /\ trace' = trace \o <<"fetch", "sleep">>
                ELSE /\ all_xml' = all_xml
                     /\ trace' = Append(trace, "fetch")
    /\ b' = b + BATCH_s2
    /\ UNCHANGED <<stage, pc, q, all_pmids, last_search, pmids, articles, has_both,
                   collaborations, files_written, m_vars, a_vars, p_vars, s1_vars>>

\* mutant: a failed request ends the batch loop
FetchBatch_s3_stop_on_failure ==
    /\ stage = 3
    /\ pc = "fetch"
    /\ b <= Len(pmids)
    /\ LET batch == batch_at(pmids, b, BATCH_s3)
       IN \E out \in FETCH_OUTCOMES(batch) :
             /\ fetch_log' = Append(fetch_log, [batch |-> batch, ok |-> out.ok, doc |-> out.doc])
             /\ IF out.ok /\ ~parse_xml(out.doc).raises
                THEN /\ articles' = articles \o parse_xml(out.doc).articles
                     /\ trace' = trace \o <<"fetch", "sleep">>
                     /\ b' = b + BATCH_s3
                ELSE /\ articles' = articles
                     /\ trace' = Append(trace, "fetch")
                     /\ b' = Len(pmids) + 1
    /\ UNCHANGED <<stage, pc, q, all_pmids, last_search, pmids, all_xml, has_both,
                   collaborations, files_written, m_vars, a_vars, p_vars, s1_vars>>

\* stage 3, one turn of the batch loop of fetch_articles: an exception of
\* urlopen or of parse_xml is caught, and then nothing is added and the sleep
\* is skipped
FetchBatch_s3 ==
    /\ stage = 3
    /\ pc = "fetch"
    /\ b <= Len(pmids)
    /\ LET batch == batch_at(pmids, b, BATCH_s3)
       IN \E out \in FETCH_OUTCOMES(batch) :
             /\ fetch_log' = Append(fetch_log, [batch |-> batch, ok |-> out.ok, doc |-> out.doc])
             /\ IF out.ok /\ ~parse_xml(out.doc).raises
                THEN /\ articles' = articles \o parse_xml(out.doc).articles
                     /\ trace' = trace \o <<"fetch", "sleep">>
                ELSE /\ articles' = articles
                     /\ trace' = Append(trace, "fetch")
    /\ b' = b + BATCH_s3
    /\ UNCHANGED <<stage, pc, q, all_pmids, last_search, pmids, all_xml, has_both,
                   collaborations, files_written, m_vars, a_vars, p_vars, s1_vars>>

\* stage 2: fetch_articles returns all_xml and main parses it; an exception
\* of parse_articles ends the run
ParseArticles_s2 ==
    /\ stage = 2
    /\ pc = "fetch"
    /\ b > Len(pmids)
    /\ LET parsed == parse_articles(all_xml)
       IN IF parsed.raises
          THEN /\ pc' = "crashed"
               /\ articles' = articles
          ELSE /\ pc' = "filter"
               /\ articles' = parsed.articles
    /\ UNCHANGED <<stage, q, all_pmids, last_search, pmids, b, fetch_log, all_xml, has_both,
                   collaborations, files_written, trace, m_vars, a_vars, p_vars, s1_vars>>

\* stage 3: fetch_articles returns the articles
FetchReturn_s3 ==
    /\ stage = 3
    /\ pc = "fetch"
    /\ b > Len(pmids)
    /\ pc' = "filter"
    /\ UNCHANGED <<stage, q, all_pmids, last_search, pmids, b, fetch_log, all_xml, articles,
                   has_both, collaborations, files_written, trace, m_vars, a_vars, p_vars, s1_vars>>

\* the loop "for article in articles" of main
Filter ==
    /\ pc = "filter"
    /\ has_both' = filter_decisions(stage, articles)
    /\ articles' = filter_annotate(stage, articles, has_both')
    /\ collaborations' = filter_collect(articles', has_both', 1)
    /\ pc' = IF stage = 3 THEN "dedup" ELSE "sort"
    /\ UNCHANGED <<stage, q, all_pmids, last_search, pmids, b, fetch_log, all_xml,
                   files_written, trace, m_vars, a_vars, p_vars, s1_vars>>

\* stage 3: "Remove duplicates by PMID"
RemoveDuplicates_s3 ==
    /\ pc = "dedup"
    /\ collaborations' = remove_duplicates(collaborations)
    /\ pc' = "sort"
    /\ UNCHANGED <<stage, q, all_pmids, last_search, pmids, b, fetch_log, all_xml, articles,
                   has_both, files_written, trace, m_vars, a_vars, p_vars, s1_vars>>

\* collaborations.sort(...)
Sort ==
    /\ pc = "sort"
    /\ collaborations' = sort_by_year(collaborations)
    /\ pc' = "report"
    /\ UNCHANGED <<stage, q, all_pmids, last_search, pmids, b, fetch_log, all_xml, articles,
                   has_both, files_written, trace, m_vars, a_vars, p_vars, s1_vars>>

\* the console listing and the two output files; in stage 3 the listing
\* slices the title, which ends the run when a title is None
Report ==
    /\ pc = "report"
    /\ IF stage = 3 /\ \E i \in 1..Len(collaborations) : format_title_s3(collaborations[i].title).raises
       THEN /\ pc' = "crashed"
            /\ files_written' = files_written
       ELSE /\ pc' = "done"
            /\ files_written' = TRUE
    /\ UNCHANGED <<stage, q, all_pmids, last_search, pmids, b, fetch_log, all_xml, articles,
                   has_both, collaborations, trace, m_vars, a_vars, p_vars, s1_vars>>

Next ==
    \/ Search_s2
    \/ SearchAffiliation_s3
    \/ SearchNames_s3
    \/ NothingFound
    \/ StartFetch
    \/ FetchBatch_s2
    \/ FetchBatch_s3
    \/ ParseArticles_s2
    \/ FetchReturn_s3
    \/ Filter
    \/ RemoveDuplicates_s3
    \/ Sort
    \/ Report

Spec == Init /\ [][Next]_vars

(***************************************************************************)
(* Stage 1, the affiliation screening.  A defaultdict(list) is the         *)
(* sequence of its items [aff, pmids] in insertion order.  s1_affiliations *)
(* holds dctv_affiliations and dsf_affiliations, s1_part tells which of    *)
(* the two query loops of main() is running, s1_found (a ghost) holds the  *)
(* PubmedArticle elements that extract_affiliations went through.          *)
(***************************************************************************)
MaxQueries_s1 == 2

\* search_pubmed, stage 1: returns the idlist as it is; nothing else is read
search_pubmed_s1(resp) ==
    IF RaisesInDecode(resp) THEN EmptyResult
    ELSE [is_none |-> resp.kind = "idlist_null", pmids |-> resp.idlist, count |-> 0]

\* extract_affiliations: the (pmid_text, aff.text) pairs of each record, from
\* './/Affiliation' first and from './/AffiliationInfo/Affiliation' after it
extract_affiliations(xml_data) ==
    LET root == fromstring(xml_data)
        of_record(article) ==
            LET pmid_text == IF article.pmid.present THEN article.pmid.text ELSE "Unknown"
                pair(aff) == [pmid |-> pmid_text, aff |-> aff.text]
                any == SelectSeq(article.affiliation_elems, LAMBDA aff : truthy(aff.text))
                info == SelectSeq(any, LAMBDA aff : aff.in_info)
            IN [i \in 1..Len(any) |-> pair(any[i])] \o [i \in 1..Len(info) |-> pair(info[i])]
        RECURSIVE loop(_, _)
        loop(i, affiliations) ==
            IF i > Len(root.records) THEN affiliations
            ELSE loop(i + 1, affiliations \o of_record(root.records[i]))
    IN IF root.ok THEN loop(1, <<>>) ELSE <<>>

\* "for pmid, aff in affs": affiliations[aff].append(pmid) for the Padova strings
collect_padova(affiliations, affs) ==
    LET append(d, pmid, aff) ==
            IF \E k \in 1..Len(d) : d[k].aff = aff
            THEN [k \in 1..Len(d) |->
                    IF d[k].aff = aff THEN [d[k] EXCEPT !.pmids = Append(@, pmid)] ELSE d[k]]
            ELSE Append(d, [aff |-> aff, pmids |-> <<pmid>>])
        RECURSIVE loop(_, _)
        loop(i, d) ==
            IF i > Len(affs) THEN d
            ELSE IF contains(lower(affs[i].aff), W_padov) \/ contains(lower(affs[i].aff), W_padua)
                 THEN loop(i + 1, append(d, affs[i].pmid, affs[i].aff))
                 ELSE loop(i + 1, d)
    IN loop(1, affiliations)

\* sorted(affiliations.items(), key=lambda x: -len(x[1])): stable
sorted_by_count(items) ==
    LET insert(sorted, x) ==
            LET before == SelectSeq(sorted, LAMBDA y : Len(y.pmids) >= Len(x.pmids))
                after == SelectSeq(sorted, LAMBDA y : Len(y.pmids) < Len(x.pmids))
            IN before \o <<x>> \o after
        RECURSIVE loop(_, _)
        loop(i, sorted) ==
            IF i > Len(items) THEN sorted ELSE loop(i + 1, insert(sorted, items[i]))
    IN loop(1, <<>>)

\* the lines printed for the first 30 items: "[N articles] Example PMID: ..."
\* and the string cut at 200 characters
listing_lines(affiliations) ==
    LET shown == prefix(sorted_by_count(affiliations), 30)
    IN [i \in 1..Len(shown) |->
            [n |-> Len(shown[i].pmids),
             example |-> shown[i].pmids[1],
             aff |-> shown[i].aff,
             text |-> prefix(shown[i].aff, 200)
                        \o (IF Len(shown[i].aff) > 200 THEN <<".", ".", ".">> ELSE <<>>)]]

\* the lines written to the file for all the items of part:
\* "[N articles] PMIDs: ..." with the first 5 identifiers, and the string
file_lines(part, affiliations) ==
    LET all == sorted_by_count(affiliations)
    IN [i \in 1..Len(all) |->
            [part |-> part,
             n |-> Len(all[i].pmids),
             pmids |-> prefix(all[i].pmids, 5),
             more |-> Len(all[i].pmids) > 5,
             aff |-> all[i].aff]]

\* the text efetch can come back with for batch, as
\* fetch_abstracts_with_affiliations returns it: "" after an exception, a
\* body cut off, or a document with one record for each identifier (the
\* record of "3" has no PMID element)
FETCHED_s1(batch) ==
    LET held == [id \in {"1", "2", "3"} |->
                    CASE id = "1" -> REC_1b
                      [] id = "2" -> REC_2a
                      [] id = "3" -> [REC_3a EXCEPT !.pmid = NoPmid]]
    IN {<<>>, truncated(<<>>), document([i \in 1..Len(batch) |-> held[batch[i]]])}

(***************************************************************************)
(* SpecScreen: one run of main() of stage 1                                *)
(***************************************************************************)
InitScreen ==
    /\ s1_pc = "queries"
    /\ s1_part = "dctv"
    /\ s1_q = 0
    /\ s1_affiliations = [dctv |-> <<>>, dsf |-> <<>>]
    /\ s1_found = [dctv |-> {}, dsf |-> {}]
    /\ s1_listing = [dctv |-> <<>>, dsf |-> <<>>]
    /\ s1_file = <<>>
    /\ MatchIdle
    /\ AuthorIdle
    /\ ParseIdle
    /\ stage = 3
    /\ RunStart

\* one turn of "for query in dctv_queries" or of "for query in dsf_queries";
\* len(pmids) raises TypeError when search_pubmed returned None
Query_s1 ==
    /\ s1_pc = "queries"
    /\ \E resp \in RESPONSES :
        LET result == search_pubmed_s1(resp)
        IN IF result.is_none
           THEN /\ s1_pc' = "crashed"
                /\ UNCHANGED <<s1_q, s1_affiliations, s1_found>>
           ELSE /\ \E xml_data \in FETCHED_s1(result.pmids) :
                    IF Len(result.pmids) > 0
                    THEN /\ s1_affiliations' =
                                [s1_affiliations EXCEPT
                                    ![s1_part] = collect_padova(@, extract_affiliations(xml_data))]
                         /\ s1_found' =
                                [s1_found EXCEPT
                                    ![s1_part] = @ \cup to_set(fromstring(xml_data).records)]
                    ELSE UNCHANGED <<s1_affiliations, s1_found>>
                /\ s1_q' = s1_q + 1
                /\ s1_pc' = IF s1_q + 1 = MaxQueries_s1 THEN "listing" ELSE "queries"
    /\ UNCHANGED <<s1_part, s1_listing, s1_file, m_vars, a_vars, run_vars, p_vars>>

\* the listing printed after a query loop; the second loop follows the first
Listing_s1 ==
    /\ s1_pc = "listing"
    /\ s1_listing' = [s1_listing EXCEPT ![s1_part] = listing_lines(s1_affiliations[s1_part])]
    /\ IF s1_part = "dctv"
       THEN /\ s1_part' = "dsf"
            /\ s1_q' = 0
            /\ s1_pc' = "queries"
       ELSE /\ s1_pc' = "save"
            /\ UNCHANGED <<s1_part, s1_q>>
    /\ UNCHANGED <<s1_affiliations, s1_found, s1_file, m_vars, a_vars, run_vars, p_vars>>

\* affiliation_screening_results.txt
Save_s1 ==
    /\ s1_pc = "save"
    /\ s1_file' = file_lines("dctv", s1_affiliations.dctv) \o file_lines("dsf", s1_affiliations.dsf)
    /\ s1_pc' = "done"
    /\ UNCHANGED <<s1_part, s1_q, s1_affiliations, s1_found, s1_listing,
                   m_vars, a_vars, run_vars, p_vars>>

NextScreen == Query_s1 \/ Listing_s1 \/ Save_s1

SpecScreen == InitScreen /\ [][NextScreen]_vars
(***************************************************************************)
(* Claims about the matcher functions (SpecMatch)                          *)
(***************************************************************************)
\* the single text: all strings of A joined with a blank, lowercased
JoinedLower(A) == lower(join(<<" ">>, A))

\* at least one pattern of P matches somewhere in the joined text of A
SomePatternMatchesJoined(A, P) ==
    \E k \in 1..Len(P) : re_search_i(P[k], JoinedLower(A))

\* pattern p matches the empty string
MatchesEmptyString(p) == re_search_i(p, <<>>)

\* some pattern of P matches the string a on its own
MatchesAlone(a, P) == \E k \in 1..Len(P) : re_search_i(P[k], a)

FirstIndex(x, lst) == CHOOSE i \in 1..Len(lst) : lst[i] = x /\ \A j \in 1..(i - 1) : lst[j] # x

\* r holds exactly the strings of A that match alone, each once, ordered by
\* first occurrence in A
IsMatchingSubset(r, A, P) ==
    /\ \A i, j \in 1..Len(r) : i # j => r[i] # r[j]
    /\ {r[i] : i \in 1..Len(r)} = {A[i] : i \in {j \in 1..Len(A) : MatchesAlone(A[j], P)}}
    /\ \A i, j \in 1..Len(r) : i < j => FirstIndex(r[i], A) < FirstIndex(r[j], A)

\* C4: get_matching_affiliations(A, P), in stage 2 and in stage 3, returns
\* exactly the strings of A that match a pattern on their own, in order of first
\* occurrence, none of them twice.
C4_ExactSubsetNoDup ==
    "get" \in m_done =>
        /\ IsMatchingSubset(m_matches_s3, m_affiliations, m_patterns)
        /\ IsMatchingSubset(m_matches_s2, m_affiliations, m_patterns)

(***************************************************************************)
(* Claims about check_author_in_list (SpecAuthor)                          *)
(***************************************************************************)
\* the lastname of a display name: all tokens but the last
LastnameOf(name) == join(<<" ">>, all_but_last(split(name)))

\* the firstname of a display name: its last token
FirstnameOf(name) == split(name)[Len(split(name))]

\* the rule as the claim words it: lastnames equal ignoring case, both
\* firstnames of 5 characters or more, their first 5 characters equal
RuleAsStated(author, entry) ==
    /\ Len(split(author)) >= 1
    /\ Len(split(entry)) >= 1
    /\ lower(LastnameOf(author)) = lower(LastnameOf(entry))
    /\ Len(FirstnameOf(author)) >= 5
    /\ Len(FirstnameOf(entry)) >= 5
    /\ prefix(FirstnameOf(author), 5) = prefix(FirstnameOf(entry), 5)

\* the rule with the two changes: both names have a lastname (two tokens or
\* more), and the firstname prefixes are compared ignoring case too
RuleAmended(author, entry) ==
    /\ Len(split(author)) >= 2
    /\ Len(split(entry)) >= 2
    /\ lower(LastnameOf(author)) = lower(LastnameOf(entry))
    /\ Len(FirstnameOf(author)) >= 5
    /\ Len(FirstnameOf(entry)) >= 5
    /\ lower(prefix(FirstnameOf(author), 5)) = lower(prefix(FirstnameOf(entry), 5))

\* C5 (as stated): an author is reported iff some roster entry has the same
\* lastname ignoring case, both firstnames have at least 5 characters and their
\* first 5 characters are equal.
C5_Original ==
    a_done =>
        \A i \in 1..Len(a_authors) :
            list_in(a_authors[i], a_matches)
                <=> \E k \in 1..Len(a_faculty_list) : RuleAsStated(a_authors[i], a_faculty_list[k])

\* C5 (amended): an author is reported iff some roster entry and the author
\* both have at least two tokens, their lastnames are equal ignoring case, both
\* firstnames have at least 5 characters and the first 5 characters of the
\* firstnames are equal ignoring case.
C5_PrefixRule ==
    a_done =>
        \A i \in 1..Len(a_authors) :
            list_in(a_authors[i], a_matches)
                <=> \E k \in 1..Len(a_faculty_list) : RuleAmended(a_authors[i], a_faculty_list[k])

\* C5 witness: against "De Filippis Vincenzo", "De Filippis Vince" is reported
\* and "De Filippis Vi" is not
C5_Witness ==
    /\ a_done
    /\ list_in(FAC_de_filippis_vincenzo, a_faculty_list)
    /\ a_authors = <<AU_de_filippis_vince, AU_de_filippis_vi>>
    /\ a_matches = <<AU_de_filippis_vince>>

RECURSIVE IsSubsequence(_, _)
IsSubsequence(r, lst) ==
    IF Len(r) = 0 THEN TRUE
    ELSE IF Len(lst) = 0 THEN FALSE
    ELSE IF Head(r) = Head(lst) THEN IsSubsequence(Tail(r), Tail(lst))
    ELSE IsSubsequence(r, Tail(lst))

\* C6: the result of check_author_in_list is a subsequence of the author list
\* (author order, each occurrence at most once, never longer), and two distinct
\* authors that match the same roster entry are both in it.
C6_ReportedOnce ==
    a_done =>
        /\ IsSubsequence(a_matches, a_authors)
        /\ Len(a_matches) <= Len(a_authors)
        /\ \A i, j \in 1..Len(a_authors) : \A k \in 1..Len(a_faculty_list) :
              (/\ a_authors[i] # a_authors[j]
               /\ RuleAmended(a_authors[i], a_faculty_list[k])
               /\ RuleAmended(a_authors[j], a_faculty_list[k]))
              => list_in(a_authors[i], a_matches) /\ list_in(a_authors[j], a_matches)

\* C6 witness: two distinct authors, each matching both entries of the roster,
\* each reported once
C6_Witness ==
    /\ a_done
    /\ Len(a_authors) = 2
    /\ a_authors[1] # a_authors[2]
    /\ Len(a_faculty_list) = 2
    /\ \A i \in 1..2 : \A k \in 1..2 : RuleAmended(a_authors[i], a_faculty_list[k])
    /\ a_matches = a_authors

(***************************************************************************)
(* Claims about a run (Spec)                                               *)
(***************************************************************************)
\* the filter loop has just ended and collaborations is as it left it
JustFiltered == (stage = 2 /\ pc = "sort") \/ (stage = 3 /\ pc = "dedup")

\* the filter loop has run
Filtered == pc \in {"dedup", "sort", "report"} \/ (pc = "done" /\ files_written)

\* collaborations is the sequence the run reports
Reported == pc = "report" \/ (pc = "done" /\ files_written)

DctvPatternsOf(st) == IF st = 2 THEN DCTV_PATTERNS_s2 ELSE DCTV_PATTERNS_s3

DsfPatternsOf(st) == IF st = 2 THEN DSF_PATTERNS_s2 ELSE DSF_PATTERNS_s3

\* the joined text holds one of the location tokens
HasLocationToken(affs) ==
    contains(JoinedLower(affs), W_padov) \/ contains(JoinedLower(affs), W_padua)

\* the three conditions of the collaboration decision
MeetsAllThree(affs, st) ==
    /\ SomePatternMatchesJoined(affs, DctvPatternsOf(st))
    /\ SomePatternMatchesJoined(affs, DsfPatternsOf(st))
    /\ HasLocationToken(affs)

\* C1: the filter puts an article in the collaboration list iff its joined
\* affiliations match the DCTV pattern set, match the DSF pattern set and hold
\* a location token.
C1_FilterIff ==
    JustFiltered =>
        /\ Len(has_both) = Len(articles)
        /\ \A i \in 1..Len(articles) :
              has_both[i] <=> MeetsAllThree(articles[i].affiliations, stage)
        /\ collaborations
             = SelectSeq(articles, LAMBDA a : MeetsAllThree(a.affiliations, stage))

\* C1 witness: two articles, the first meets all three conditions, the second
\* matches one department only; exactly the first is in the list
C1_Witness ==
    /\ JustFiltered
    /\ Len(articles) = 2
    /\ MeetsAllThree(articles[1].affiliations, stage)
    /\ SomePatternMatchesJoined(articles[2].affiliations, DctvPatternsOf(stage))
    /\ ~SomePatternMatchesJoined(articles[2].affiliations, DsfPatternsOf(stage))
    /\ collaborations = <<articles[1]>>

\* C2: two articles with the same affiliation list get the same decision,
\* whatever their authors are.
C2_AuthorsNeverGate ==
    Filtered =>
        \A i, j \in 1..Len(articles) :
            articles[i].affiliations = articles[j].affiliations => has_both[i] = has_both[j]

\* C2 witness: stage 3 includes two articles with the same affiliations, one
\* with a roster author and one without
C2_Witness ==
    /\ stage = 3
    /\ pc = "dedup"
    /\ \E i, j \in 1..Len(articles) :
          /\ articles[i].affiliations = articles[j].affiliations
          /\ has_both[i]
          /\ has_both[j]
          /\ Len(articles[i].dsf_authors) > 0
          /\ Len(articles[j].dsf_authors) = 0
          /\ Len(articles[j].dctv_authors) = 0

\* the first included article with identifier p
FirstIncluded(p) ==
    articles[CHOOSE i \in 1..Len(articles) :
                /\ has_both[i]
                /\ articles[i].pmid = p
                /\ \A j \in 1..(i - 1) : ~(has_both[j] /\ articles[j].pmid = p)]

\* C7: the reported sequence has no two entries with the same identifier, and
\* the entry kept for an identifier is the first one encountered.
C7_UniqueIdsFirstWins ==
    Reported =>
        /\ \A i, j \in 1..Len(collaborations) :
              i # j => collaborations[i].pmid # collaborations[j].pmid
        /\ \A k \in 1..Len(collaborations) :
              collaborations[k] = FirstIncluded(collaborations[k].pmid)

\* the number a year stands for; the empty year comes below every year
RECURSIVE digits_value(_)
digits_value(y) ==
    IF Len(y) = 0 THEN 0
    ELSE 10 * digits_value(SubSeq(y, 1, Len(y) - 1)) + (ord(y[Len(y)]) - 48)

YearRank(y) == IF Len(y) = 0 THEN -1 ELSE digits_value(y)

\* C8: the reported sequence is ordered by year descending, the articles with
\* an empty year after all the others.
C8_SortedByYearDesc ==
    Reported =>
        \A i, j \in 1..Len(collaborations) :
            i < j => YearRank(collaborations[i].year) >= YearRank(collaborations[j].year)

\* C8 witness: collaborations found with years 2023, 2019, "", 2024 are
\* reported in the order 2024, 2023, 2019, ""
C8_Witness ==
    /\ Reported
    /\ Len(articles) = 4
    /\ \A i \in 1..4 : has_both[i]
    /\ [i \in 1..4 |-> articles[i].year] = <<YEAR_2023, YEAR_2019, <<>>, YEAR_2024>>
    /\ [i \in 1..4 |-> collaborations[i].year] = <<YEAR_2024, YEAR_2023, YEAR_2019, <<>>>>

\* the response is a transport failure or cannot be decoded by the stage (the
\* count is decoded only where it is returned, in stage 3)
IsFailedSearch(st, resp) ==
    \/ resp.kind \in {"transport_error", "bad_json", "not_object", "idlist_null"}
    \/ (st = 3 /\ resp.kind = "count_nan")

\* C9: after a failed search, search_pubmed has returned the empty result and
\* the query loop goes on.
C9_SearchDegradesToEmpty ==
    (last_search.called /\ IsFailedSearch(stage, last_search.resp)) =>
        /\ last_search.result = EmptyResult
        /\ pc # "crashed"

BatchSize == IF stage = 2 THEN BATCH_s2 ELSE BATCH_s3

\* the number of batches of the identifier list
NumBatches == (Len(pmids) + BatchSize - 1) \div BatchSize

\* the records of the documents obtained by the first n requests
RECURSIVE ObtainedRecords(_)
ObtainedRecords(n) ==
    IF n = 0 THEN <<>>
    ELSE ObtainedRecords(n - 1)
            \o (IF fetch_log[n].ok /\ ~parse_xml(fetch_log[n].doc).raises
                THEN parse_xml(fetch_log[n].doc).articles ELSE <<>>)

\* the documents obtained by the first n requests
RECURSIVE ObtainedDocs(_)
ObtainedDocs(n) ==
    IF n = 0 THEN <<>>
    ELSE ObtainedDocs(n - 1) \o (IF fetch_log[n].ok THEN fetch_log[n].doc ELSE <<>>)

\* C10: a failed batch request loses that batch only: nothing is raised, every
\* batch is requested, and the result holds what every successful batch gave.
C10_FailedBatchOnlyLost ==
    /\ (pc = "fetch" /\ b <= Len(pmids)) => Len(fetch_log) = (b - 1) \div BatchSize
    /\ (pc \in {"fetch", "filter"} /\ b > Len(pmids)) => Len(fetch_log) = NumBatches
    /\ \A k \in 1..Len(fetch_log) :
          fetch_log[k].batch = batch_at(pmids, 1 + (k - 1) * BatchSize, BatchSize)
    /\ (Len(fetch_log) > 0 /\ pc = "crashed") => b > Len(pmids)
    /\ (stage = 3 /\ pc \in {"fetch", "filter"}) => articles = ObtainedRecords(Len(fetch_log))
    /\ stage = 2 => all_xml = ObtainedDocs(Len(fetch_log))
    /\ (stage = 2 /\ pc = "filter") => articles = ObtainedRecords(Len(fetch_log))

\* C10 witness: three batches, the second request failed, the result holds the
\* records of the first and of the third
C10_Witness ==
    /\ stage = 3
    /\ pc = "filter"
    /\ Len(fetch_log) = 3
    /\ fetch_log[1].ok
    /\ ~fetch_log[2].ok
    /\ fetch_log[3].ok
    /\ Len(parse_xml(fetch_log[1].doc).articles) > 0
    /\ Len(parse_xml(fetch_log[3].doc).articles) > 0
    /\ articles = parse_xml(fetch_log[1].doc).articles \o parse_xml(fetch_log[3].doc).articles
(***************************************************************************)
(* Claims about the record parser                                          *)
(***************************************************************************)
\* the records of a text that are sent complete and that can be read
ReadableRecords(text) ==
    LET toks == SelectSeq(text, LAMBDA t : t.kind = "record" /\ ~extract_article(t.rec).raises)
    IN [i \in 1..Len(toks) |-> extract_article(toks[i].rec).article]

\* the number of records of a text that are cut off or that cannot be read
NumBrokenRecords(text) ==
    Len(SelectSeq(text, LAMBDA t :
        t.kind = "trunc" \/ (t.kind = "record" /\ extract_article(t.rec).raises)))

\* every document of the payload begins with the declaration efetch sends
BeginsWithProlog(doc) == Len(doc) >= 2 /\ doc[1].kind = "prolog" /\ doc[2].kind = "decl_end"

\* C11: a payload with one well-formed record and one truncated or invalid
\* record, in the same document or in two documents, parses to exactly the
\* Article of the well-formed record, in stage 2 and in stage 3, and no
\* exception leaves the parser.
C11_MalformedRecordSkipped ==
    LET text == concat(p_payload)
    IN (/\ \A d \in 1..Len(p_payload) : BeginsWithProlog(p_payload[d])
        /\ Len(ReadableRecords(text)) = 1
        /\ NumBrokenRecords(text) = 1)
       => /\ "parse_articles" \in p_done =>
                p_parse_articles = [raises |-> FALSE, articles |-> ReadableRecords(text)]
          /\ "parse_xml" \in p_done =>
                /\ \A d \in 1..Len(p_payload) : ~p_parse_xml[d].raises
                /\ parsed_articles(p_parse_xml) = ReadableRecords(text)

\* what parse_articles returns for each document of the payload alone, joined
RECURSIVE ParsedAlone(_)
ParsedAlone(docs) ==
    IF Len(docs) = 0 THEN <<>>
    ELSE parse_articles(Head(docs)).articles \o ParsedAlone(Tail(docs))

\* C12: parse_articles on the concatenation of the fetched documents returns
\* the concatenation, in order, of what it returns for each document alone,
\* and a document that is well formed on its own is parsed also when it does
\* not begin with the text <?xml version="1.0".
C12_ConcatenationParsedPerDocument ==
    ("parse_articles" \in p_done
        /\ \A d \in 1..Len(p_payload) : ~parse_articles(p_payload[d]).raises)
    => /\ ~p_parse_articles.raises
       /\ p_parse_articles.articles = ParsedAlone(p_payload)
       /\ \A d \in 1..Len(p_payload) :
             fromstring(p_payload[d]).ok =>
                parse_articles(p_payload[d]).articles
                    = extract_articles(fromstring(p_payload[d]).records).articles

\* every Article the parsers have returned for the payload
ParsedArticleSet ==
    {p_parse_articles.articles[i] : i \in 1..Len(p_parse_articles.articles)}
    \cup {parsed_articles(p_parse_xml)[i] : i \in 1..Len(parsed_articles(p_parse_xml))}

\* the texts of the Affiliation elements of rec, those inside AffiliationInfo
\* first, each kept at its first occurrence only
FirstSeenAffiliations(rec) ==
    LET elems == rec.affiliation_elems
        texts == SelectSeq(elems, LAMBDA e : e.in_info /\ truthy(e.text))
                    \o SelectSeq(elems, LAMBDA e : ~e.in_info /\ truthy(e.text))
        keep == {i \in 1..Len(texts) : \A j \in 1..(i - 1) : texts[j].text # texts[i].text}
        RECURSIVE pick(_)
        pick(i) == IF i > Len(texts) THEN <<>>
                   ELSE (IF i \in keep THEN <<texts[i].text>> ELSE <<>>) \o pick(i + 1)
    IN pick(1)

\* C13: the affiliations of every parsed Article hold no string twice, and
\* they are the per-author strings then the old-style strings, first seen
\* first.
C13_AffiliationsDeduplicated ==
    /\ \A article \in ParsedArticleSet :
          \A i, j \in 1..Len(article.affiliations) :
             i # j => article.affiliations[i] # article.affiliations[j]
    /\ "parse_xml" \in p_done =>
          \A d \in 1..Len(p_payload) :
             LET root == fromstring(p_payload[d])
             IN (root.ok /\ ~p_parse_xml[d].raises) =>
                   \A i \in 1..Len(root.records) :
                      p_parse_xml[d].articles[i].affiliations
                          = FirstSeenAffiliations(root.records[i])

IsDigit(c) == c \in {"0", "1", "2", "3", "4", "5", "6", "7", "8", "9"}

\* C14: the year of every parsed Article is the empty string or four digits.
C14_YearFourDigitsOrEmpty ==
    \A article \in ParsedArticleSet :
        \/ article.year = <<>>
        \/ /\ Len(article.year) = 4
           /\ \A i \in 1..4 : IsDigit(article.year[i])

\* C15: the title and the journal of every parsed Article are strings, and no
\* title line of the stage-3 listing fails.
C15_TitleJournalNeverNull ==
    /\ \A article \in ParsedArticleSet : article.title # None /\ article.journal # None
    /\ \A i \in 1..Len(p_titles) : ~p_titles[i].raises

(***************************************************************************)
(* Claims about a run                                                      *)
(***************************************************************************)
ARTICLE_FIELDS == {"pmid", "title", "journal", "year", "authors", "affiliations"}

DerivedFields ==
    IF stage = 2 THEN {"dctv_affiliations", "dsf_affiliations"}
    ELSE {"dctv_affiliations", "dsf_affiliations", "dctv_authors", "dsf_authors"}

\* the Articles as the parser returned them in this run
AsParsed ==
    IF stage = 2 THEN parse_articles(all_xml).articles ELSE ObtainedRecords(Len(fetch_log))

\* the parsed fields of an article object
ParsedFields(article) == [f \in ARTICLE_FIELDS |-> article[f]]

\* the filter loop has run
AfterFilter == pc \in {"dedup", "sort", "report", "done"} \/ (pc = "crashed" /\ Len(has_both) > 0)

\* C16: from the filter on, every article object has its six parsed fields as
\* parsed; it has the derived match fields of its stage if it was included and
\* no other field if it was not; and every collaboration is one of the
\* included article objects.
C16_ParsedFieldsUnchanged ==
    AfterFilter =>
        /\ Len(articles) = Len(AsParsed)
        /\ \A i \in 1..Len(articles) :
              /\ ParsedFields(articles[i]) = AsParsed[i]
              /\ DOMAIN articles[i] =
                    ARTICLE_FIELDS \cup (IF has_both[i] THEN DerivedFields ELSE {})
        /\ \A k \in 1..Len(collaborations) :
              \E i \in 1..Len(articles) : has_both[i] /\ collaborations[k] = articles[i]

\* C16 witness: a stage-3 run that has filtered, deduplicated and sorted, with
\* an article that was included, one that was not, and a duplicate removed
C16_Witness ==
    /\ stage = 3
    /\ pc = "done"
    /\ \E i, j \in 1..Len(articles) : has_both[i] /\ ~has_both[j]
    /\ Len(collaborations) >= 2
    /\ Len(collaborations) < Cardinality({i \in 1..Len(articles) : has_both[i]})
    /\ \E k \in 1..(Len(collaborations) - 1) :
          collaborations[k].year # collaborations[k + 1].year

IsRequest(e) == e \in {"search", "fetch"}

\* C17: between any two consecutive outbound requests of a run a pacing delay
\* takes place.
C17_DelayBetweenRequests ==
    \A i \in 1..(Len(trace) - 1) : ~(IsRequest(trace[i]) /\ IsRequest(trace[i + 1]))

\* C18: a run whose queries gave no identifier ends normally with no fetch
\* request and no output file, and no run ends with an error.
C18_NoFatalError ==
    /\ (q = NumQueries /\ all_pmids = {}) =>
          /\ pc \in {"search", "done"}
          /\ fetch_log = <<>>
          /\ \A i \in 1..Len(trace) : trace[i] # "fetch"
          /\ ~files_written
    /\ pc # "crashed"

\* the identifier lists of the requests made so far, in request order
RequestedBatches == [k \in 1..Len(fetch_log) |-> fetch_log[k].batch]

\* the batch loop of fetch_articles has ended
BatchLoopEnded == pc \notin {"search"} /\ Len(pmids) > 0 /\ b > Len(pmids)

\* C19: the requests of fetch_articles are for consecutive batches of the
\* fixed size, none empty and only the last one possibly shorter, which put
\* together are the identifier list: every identifier is requested exactly
\* once, in order, also after a failed request.
C19_OneRequestPerBatch ==
    LET batches == RequestedBatches
        requested == concat(batches)
    IN /\ \A k \in 1..Len(batches) : Len(batches[k]) >= 1 /\ Len(batches[k]) <= BatchSize
       /\ \A k \in 1..(Len(batches) - 1) : Len(batches[k]) = BatchSize
       /\ Len(requested) <= Len(pmids)
       /\ requested = SubSeq(pmids, 1, Len(requested))
       /\ BatchLoopEnded => requested = pmids
       /\ Cardinality({i \in 1..Len(trace) : trace[i] = "fetch"}) = Len(batches)

\* C19 witness: a stage-2 run with a full batch whose request failed, then a
\* shorter last batch, and no further request
C19_Witness ==
    /\ stage = 2
    /\ pc = "filter"
    /\ Len(fetch_log) = 2
    /\ ~fetch_log[1].ok
    /\ Len(fetch_log[1].batch) = BatchSize
    /\ Len(fetch_log[2].batch) >= 1
    /\ Len(fetch_log[2].batch) < BatchSize

(***************************************************************************)
(* Claims about the two affiliation functions together                     *)
(***************************************************************************)
\* pat has a $ in it
RECURSIVE UsesEol(_)
UsesEol(pat) ==
    \E k \in 1..Len(pat) :
        \/ pat[k][1] = "eol"
        \/ pat[k][1] = "opt" /\ UsesEol(pat[k][2])
        \/ pat[k][1] = "alt" /\ \E a \in 1..Len(pat[k][2]) : UsesEol(pat[k][2][a])

BothCalled == m_done = {"check", "get"}

C20_ConverseFails ==
    /\ BothCalled
    /\ m_patterns = DSF_PATTERNS_s3
    /\ m_has
    /\ m_matches_s2 = <<>>
    /\ m_matches_s3 = <<>>

(***************************************************************************)
(* Stage 1: the number reported for an affiliation string                  *)
(***************************************************************************)
\* the record has an Affiliation element, in any of the places scanned, whose
\* text is aff
Carries(rec, aff) ==
    \E i \in 1..Len(rec.affiliation_elems) : rec.affiliation_elems[i].text = aff

\* the records found by the queries of part that carry aff
RecordsCarrying(part, aff) == {rec \in s1_found[part] : Carries(rec, aff)}

\* the (part, aff, N) of every "[N articles]" printed or written
ReportedCounts ==
    UNION {{<<part, s1_listing[part][i].aff, s1_listing[part][i].n>> :
                i \in 1..Len(s1_listing[part])} : part \in {"dctv", "dsf"}}
    \cup {<<s1_file[i].part, s1_file[i].aff, s1_file[i].n>> : i \in 1..Len(s1_file)}

\* the strings reported all contain "padov" or "padua", whatever the case
C21_OnlyPadovaReported ==
    \A c \in ReportedCounts :
        contains(lower(c[2]), W_padov) \/ contains(lower(c[2]), W_padua)

\* no record that carries a Padova string is left out of its count
C21_CountAtLeastRecords ==
    \A c \in ReportedCounts : c[3] >= Cardinality(RecordsCarrying(c[1], c[2]))

\* C21: in the stage-1 screening, the number reported as "[N articles]" for
\* an affiliation string is the number of distinct records, among those
\* found by that department's queries, that carry the string (a record
\* counts once, however many scanned places hold the string and however
\* many queries return the record), and only strings containing "padov" or
\* "padua" are reported.
C21_CountIsDistinctRecords ==
    /\ C21_OnlyPadovaReported
    /\ \A c \in ReportedCounts : c[3] = Cardinality(RecordsCarrying(c[1], c[2]))

\* a listing reports 2 for a string that one record carries, found by one
\* query, in one AffiliationInfo element
C21_CountedTwice ==
    /\ s1_pc = "done"
    /\ \E c \in ReportedCounts :
        /\ c[3] = 2
        /\ \E rec \in s1_found[c[1]] :
            /\ RecordsCarrying(c[1], c[2]) = {rec}
            /\ Cardinality({i \in 1..Len(rec.affiliation_elems) :
                                rec.affiliation_elems[i].text = c[2]}) = 1

====
